---- MODULE Spec2Model ----
(***************************************************************************)
(* A model of dash_slicer.VolumeSlicer: the Dash components and stores of  *)
(* each slicer, and the server-side and client-side callbacks that connect *)
(* them (src/dash_slicer/slicer.py, src/dash_slicer/utils.py).             *)
(*                                                                         *)
(* Conventions                                                             *)
(*  - Python/JS sequences are 0-based, TLA+ tuples are 1-based: shape[a]   *)
(*    of the source is shape[a + 1] here.                                  *)
(*  - None / null / undefined / dash.no_update are the empty tuple <<>>,   *)
(*    a present value v is <<v>>.                                          *)
(*  - Scene coordinates that the client computes with floats are exact     *)
(*    rationals <<numerator, denominator>>.                                *)
(*  - Time is counted in units of 50 ms and measured from the current      *)
(*    instant: window.performance.now() is Now at every callback, and the  *)
(*    passing of time (Advance) moves every stored instant one unit        *)
(*    towards the past.  A deadline that has passed is kept at Now: the    *)
(*    code only ever reads `now >= timeout`.                               *)
(***************************************************************************)
EXTENDS Integers, Sequences, FiniteSets, TLC

None == <<>>
Some(v) == <<v>>

-----------------------------------------------------------------------------
(* Exact arithmetic for the client's floating point computations.          *)

Abs(a) == IF a < 0 THEN -a ELSE a

RECURSIVE Gcd(_, _)
Gcd(a, b) == IF b = 0 THEN a ELSE Gcd(b, a % b)

\* n / d in lowest terms with a positive denominator, g being their gcd.
Reduced(n, d, g) ==
    IF d < 0 THEN <<(-n) \div g, (-d) \div g>> ELSE <<n \div g, d \div g>>

Q(n, d) == Reduced(n, d, Gcd(Abs(n), Abs(d)))

QInt(n) == <<n, 1>>
QHalf == <<1, 2>>
QAdd(a, b) == Q(a[1] * b[2] + b[1] * a[2], a[2] * b[2])
QSub(a, b) == Q(a[1] * b[2] - b[1] * a[2], a[2] * b[2])
QMul(a, b) == Q(a[1] * b[1], a[2] * b[2])
QDiv(a, b) == Q(a[1] * b[2], a[2] * b[1])
QLe(a, b) == a[1] * b[2] <= b[1] * a[2]
QMin(a, b) == IF QLe(a, b) THEN a ELSE b
QMax(a, b) == IF QLe(a, b) THEN b ELSE a

Min(a, b) == IF a <= b THEN a ELSE b
Max(a, b) == IF a >= b THEN a ELSE b

\* Math.round of the quotient n / d of two integers, d > 0: the nearest
\* integer, halves rounded towards plus infinity.
MathRound(n, d) == (2 * n + d) \div (2 * d)

-----------------------------------------------------------------------------
(* Bounds of the model and constants of the program.                       *)

\* n_intervals is counted up to this value and then kept: the code reads it
\* only as `!n_intervals` and `n_intervals < 5`.
MaxIntervals == 6

\* Interval(interval=100): the timer's period, in units of 50 ms.
TimerInterval == 2
\* private_state.timeout = now + 200 | 400 | 100, in units of 50 ms.
SliderTimeout == 4
LayoutTimeout == 8
InitTimeout == 2
\* `if (n_intervals < 5)`: the ticks during which the plot settles.
SettleTicks == 5
\* `let plotSize = [400, 400]`.
PlotSizeEstimate == 400
\* window.performance.now(), the origin of the model's time axis.
Now == 0
\* self._thumbnail_param = 32  (thumbnail is True).
DefaultThumbnail == 32

-----------------------------------------------------------------------------
(* utils.py                                                                *)

\* shape3d_to_size2d without the reversal of the two remaining entries.
shape3d_to_size2d_unreversed(shape, axis) ==
    LET rest == [i \in 1..2 |-> IF i < axis + 1 THEN shape[i] ELSE shape[i + 1]]
    IN  <<rest[1], rest[2], shape[axis + 1]>>

\* shape3d_to_size2d(shape, axis): (z, y, x) to the local (x', y', z').
shape3d_to_size2d(shape, axis) ==
    LET rest == [i \in 1..2 |-> IF i < axis + 1 THEN shape[i] ELSE shape[i + 1]]
    IN  <<rest[2], rest[1], shape[axis + 1]>>

\* A call of shape3d_to_size2d with any integer axis: shape.pop(axis) raises
\* IndexError outside -len(shape) .. len(shape) - 1 and counts a negative
\* axis from the end.
shape3d_to_size2d_call(shape, axis) ==
    IF axis < -Len(shape) \/ axis >= Len(shape)
    THEN [raised |-> "IndexError", value |-> <<>>]
    ELSE [raised |-> "", value |-> shape3d_to_size2d(shape, axis % Len(shape))]

\* _thumbnail_size_from_scalar without the aspect ratio: a square box.
thumbnail_size_from_scalar_square(image_size, ref_size) ==
    <<ref_size, ref_size>>

\* _thumbnail_size_from_scalar(image_size, ref_size); int() truncates, and
\* the operands are positive.
thumbnail_size_from_scalar(image_size, ref_size) ==
    IF image_size[1] > image_size[2]
    THEN <<(ref_size * image_size[1]) \div image_size[2], ref_size>>
    ELSE <<ref_size, (ref_size * image_size[2]) \div image_size[1]>>

\* round_aspect of PIL.Image.thumbnail: of the floor and the ceiling of a
\* quotient the one whose key is smaller, the floor on a tie, and at least 1;
\* floor_first tells whether key(floor) <= key(ceil).
round_aspect(floor, ceil, floor_first) ==
    Max(IF floor_first THEN floor ELSE ceil, 1)

\* The ceiling of n / d, for the floor f.
CeilOf(f, n, d) == IF f * d = n THEN f ELSE f + 1

\* PIL.Image.thumbnail as get_thumbnail_size and img_array_to_uri use it:
\* the image is never enlarged, and otherwise fitted into the box, one side
\* of the box kept and the other chosen as near to the aspect ratio w / h of
\* the image as whole pixels allow.  The keys |w/h - n/y| and |w/h - x/n|
\* are compared after multiplying by the denominators.
pil_thumbnail(size, box) ==
    IF box[1] >= size[1] /\ box[2] >= size[2]
    THEN <<size[1], size[2]>>
    ELSE IF box[1] * size[2] >= size[1] * box[2]
         THEN LET f == (box[2] * size[1]) \div size[2]
                  c == CeilOf(f, box[2] * size[1], size[2])
              IN  <<round_aspect(f, c,
                                 Abs(size[1] * box[2] - f * size[2])
                                   <= Abs(size[1] * box[2] - c * size[2])),
                    box[2]>>
         ELSE LET f == (box[1] * size[2]) \div size[1]
                  c == CeilOf(f, box[1] * size[2], size[1])
              IN  <<box[1],
                    round_aspect(f, c,
                                 IF f = 0 THEN TRUE
                                 ELSE Abs(size[1] * f - box[1] * size[2]) * c
                                        <= Abs(size[1] * c - box[1] * size[2]) * f)>>

\* get_thumbnail_size(size, ref_size)
get_thumbnail_size(size, ref_size) ==
    pil_thumbnail(size, thumbnail_size_from_scalar(size, ref_size))

\* A base64 PNG.  Two encoded images are the same string exactly when they
\* encode the same pixels: the slice `index` of the volume under contrast
\* limits `clim` at `w` x `h` pixels (slices of the volume are taken to be
\* pairwise different images).
Png(index, clim, wh) ==
    [tag |-> "png", index |-> index, clim |-> clim, w |-> wh[1], h |-> wh[2]]
\* '' and undefined, as sources of an image trace.
EmptySource == [tag |-> "empty", index |-> -1, clim |-> -1, w |-> 0, h |-> 0]
UndefinedSource == [tag |-> "undefined", index |-> -1, clim |-> -1, w |-> 0, h |-> 0]

\* img_array_to_uri(self._slice(index, clim), ref_size) for a slicer whose
\* in-plane size is size2d.
img_array_to_uri(index, clim, size2d, ref_size) ==
    IF ref_size = None
    THEN Png(index, clim, size2d)
    ELSE Png(index, clim, pil_thumbnail(size2d, thumbnail_size_from_scalar(size2d, ref_size[1])))

\* discrete_colors = plotly.colors.qualitative.D3
discrete_colors == <<"#1F77B4", "#FF7F0E", "#2CA02C">>

-----------------------------------------------------------------------------
(* VolumeSlicer.__init__                                                   *)

\* A constructor that accepts a thumbnail size of any positive value.
ThumbnailParam_unbounded(thumbnail, shape) ==
    IF thumbnail[2] = 0
    THEN None
    ELSE IF thumbnail = <<"bool", 1>>
         THEN Some(DefaultThumbnail)
         ELSE IF thumbnail[2] <= 0
              THEN None
              ELSE Some(thumbnail[2])

\* The thumbnail argument is <<"bool", 0 | 1>> or <<"int", n>>.
\* self._thumbnail_param: None, or the size of the thumbnails.
ThumbnailParam(thumbnail, shape) ==
    IF thumbnail[2] = 0
    THEN None                                   \* `not thumbnail`
    ELSE IF thumbnail = <<"bool", 1>>
         THEN Some(DefaultThumbnail)            \* `thumbnail is True`
         ELSE IF thumbnail[2] >= Max(shape[1], Max(shape[2], shape[3]))
              THEN None
              ELSE IF thumbnail[2] <= 0
                   THEN None
                   ELSE Some(thumbnail[2])

\* self._slice_info, for constructor arguments
\*   a = [shape, spacing, origin, axis, color, thumbnail, scene_id]
\* (color None is <<>>); n is the value of _global_slicer_counter, which
\* also stands for the random infoid of this page load.
SliceInfo(a, n) ==
    LET size == shape3d_to_size2d(a.shape, a.axis)
        param == ThumbnailParam(a.thumbnail, a.shape)
    IN  [axis |-> a.axis,
         size |-> size,
         offset |-> shape3d_to_size2d(a.origin, a.axis),
         stepsize |-> shape3d_to_size2d(a.spacing, a.axis),
         color |-> IF a.color = None THEN discrete_colors[a.axis + 1] ELSE a.color[1],
         infoid |-> n,
         thumbnail_size |-> IF param = None
                            THEN <<size[1], size[2]>>
                            ELSE get_thumbnail_size(<<size[1], size[2]>>, param[1])]

\* self._slice(index, clim) of a slicer of a volume of the given shape on
\* the given axis: self._volume[tuple(indices)] with the integer index at
\* the axis.  numpy counts a negative index from the end, and raises
\* IndexError for an index outside -n .. n - 1, n = shape[axis]; the result
\* is converted with astype(np.uint8).  plane is the hyperplane sampled.
slice(shape, axis, index) ==
    LET n == shape[axis + 1]
    IN  IF index < -n \/ index >= n
        THEN [raised |-> "IndexError", dtype |-> "", shape |-> <<>>, plane |-> -1]
        ELSE [raised |-> "", dtype |-> "uint8",
              shape |-> [i \in 1..2 |-> IF i < axis + 1 THEN shape[i] ELSE shape[i + 1]],
              plane |-> index % n]

\* What astype(np.uint8) makes of a NaN is not defined; the extremes stand
\* for the values a build can produce.
NanAsUint8 == {0, 255}

\* The contrast limits in _slice, for one pixel p of the sampled plane and
\* limits lo < hi: (p - lo) * (255 / (hi - lo)), clipped to 0 .. 255 and
\* truncated by astype(np.uint8).
scaled_pixel(p, lo, hi) ==
    Min(Max(((p - lo) * 255) \div (hi - lo), 0), 255)

\* The second half of self._slice(index, clim): the outcomes of applying the
\* limits clim = [kind, a, b] to the pixels px of the sampled plane.  For
\* a = b the quotient 255 / (hi - lo) raises ZeroDivisionError when the
\* limits are Python numbers (as the callbacks get them from the clim
\* store) and is inf when they are numpy scalars; then a pixel above lo
\* becomes inf and is clipped to 255, one below lo becomes -inf and 0, and
\* one equal to lo becomes 0 * inf = NaN, which no clipping changes.
slice_clim(px, limits) ==
    LET lo == Min(limits.a, limits.b)
        hi == Max(limits.a, limits.b)
    IN  IF lo # hi
        THEN {[raised |-> "", value |-> [i \in DOMAIN px |-> scaled_pixel(px[i], lo, hi)]]}
        ELSE IF limits.kind = "python"
             THEN {[raised |-> "ZeroDivisionError", value |-> <<>>]}
             ELSE {[raised |-> "", value |-> v]
                   : v \in {w \in [DOMAIN px -> {0, 255}] :
                              \A i \in DOMAIN px :
                                  /\ px[i] > lo => w[i] = 255
                                  /\ px[i] < lo => w[i] = 0
                                  /\ px[i] = lo => w[i] \in NanAsUint8}}

\* The voxels (z, y, x), counted from 1, of an array of the given shape,
\* and those of its hyperplane i (counted from 0) along the axis.
Voxels(shape) == (1..shape[1]) \X (1..shape[2]) \X (1..shape[3])

Hyperplane(shape, axis, i) == {v \in Voxels(shape) : v[axis + 1] = i + 1}

\* mask_to_coloured_slices that looks at the whole mask for every slice.
mask_to_coloured_slices_whole(mask, axis) ==
    [i \in 1..mask.shape[axis + 1] |->
        IF \A v \in Voxels(mask.shape) : mask.data[v] = 0
        THEN None
        ELSE Some([tag |-> "png",
                   rgba |-> [v \in Hyperplane(mask.shape, axis, i - 1) |-> mask.data[v]]])]

\* mask_to_coloured_slices(mask, axis) for a uint8 or bool ndarray
\* mask = [shape, data] and the default colors: one entry per index along
\* the axis, None where im.max() is 0 and otherwise the encoded image of the
\* colors of the slice (an image is told by the mask values it colors).
\* The dtype check names np.bool, which is taken to exist (it does not in
\* numpy 1.24 to 1.26, where the check raises AttributeError).
mask_to_coloured_slices(mask, axis) ==
    [i \in 1..mask.shape[axis + 1] |->
        LET im == [v \in Hyperplane(mask.shape, axis, i - 1) |-> mask.data[v]]
            max_mask == CHOOSE m \in {im[v] : v \in DOMAIN im} :
                            \A v \in DOMAIN im : im[v] <= m
        IN  IF max_mask = 0
            THEN None
            ELSE Some([tag |-> "png", rgba |-> im])]

\* self.create_overlay_data(mask) of a slicer of a volume of the given shape
\* on the given axis; the mask None is <<>>.
create_overlay_data(mask, shape, axis) ==
    IF mask = None
    THEN [raised |-> "", value |-> [index \in 1..shape[axis + 1] |-> None]]
    ELSE IF mask[1].shape # shape
         THEN [raised |-> "ValueError", value |-> <<>>]
         ELSE [raised |-> "", value |-> mask_to_coloured_slices(mask[1], axis)]

-----------------------------------------------------------------------------
(* The server-side callbacks (_create_server_callbacks).                   *)

\* upload_thumbnails that leaves out the last slice.
upload_thumbnails_short(clim, inf, param) ==
    [i \in 1..(inf.size[3] - 1) |->
        img_array_to_uri(i - 1, clim, <<inf.size[1], inf.size[2]>>, param)]

\* upload_thumbnails(clim): one image per slice (a 0-based list, here
\* indexed 1..nslices).
upload_thumbnails(clim, inf, param) ==
    [i \in 1..inf.size[3] |->
        img_array_to_uri(i - 1, clim, <<inf.size[1], inf.size[2]>>, param)]

\* A server that answers every non-null state with a slice.
upload_requested_slice_always(st, clim, inf) ==
    IF st = None
    THEN None
    ELSE Some([index |-> st[1].index,
               slice |-> img_array_to_uri(st[1].index, clim,
                                          <<inf.size[1], inf.size[2]>>, None)])

\* upload_requested_slice(state, clim): <<>> is dash.no_update.
upload_requested_slice(st, clim, inf) ==
    IF st = None \/ ~st[1].index_changed
    THEN None
    ELSE Some([index |-> st[1].index,
               slice |-> img_array_to_uri(st[1].index, clim,
                                          <<inf.size[1], inf.size[2]>>, None)])

-----------------------------------------------------------------------------
(* The client-side callbacks (_create_client_callbacks).                   *)

\* update_setpos_from_click(data, index, info): the clicked point (x, y)
\* with the slicer's depth spliced in at position 2 - axis.
\* update_setpos_from_click that puts the depth last, whatever the axis.
update_setpos_from_click_depth_last(point, index, inf) ==
    IF point = None
    THEN None
    ELSE Some(<<Some(point[1][1]), Some(point[1][2]),
                Some(inf.offset[3] + index * inf.stepsize[3])>>)

update_setpos_from_click(point, index, inf) ==
    LET depth == inf.offset[3] + index * inf.stepsize[3]
        at == 2 - inf.axis
    IN  IF point = None
        THEN None
        ELSE Some([i \in 1..3 |->
                    IF i - 1 < at THEN Some(point[1][i])
                    ELSE IF i - 1 = at THEN Some(depth)
                    ELSE Some(point[1][i - 1])])

\* The index update_slider_value computes for one trigger value.
SetposIndex(pos, inf) == MathRound(pos - inf.offset[3], inf.stepsize[3])

\* update_slider_value without `typeof pos !== 'number'`: a component that
\* is not a number counts as 0.
RECURSIVE update_slider_value_untyped(_, _, _)
update_slider_value_untyped(triggered, cur_index, inf) ==
    IF triggered = <<>>
    THEN None
    ELSE LET value == Head(triggered)
             pos == IF value = None THEN 0
                    ELSE IF value[1][(2 - inf.axis) + 1] = None THEN 0
                    ELSE value[1][(2 - inf.axis) + 1][1]
         IN  IF value = None
             THEN update_slider_value_untyped(Tail(triggered), cur_index, inf)
             ELSE IF SetposIndex(pos, inf) = cur_index
                  THEN update_slider_value_untyped(Tail(triggered), cur_index, inf)
                  ELSE Some(Max(0, Min(inf.size[3] - 1, SetposIndex(pos, inf))))

\* update_slider_value without Math.max / Math.min.
RECURSIVE update_slider_value_unclamped(_, _, _)
update_slider_value_unclamped(triggered, cur_index, inf) ==
    IF triggered = <<>>
    THEN None
    ELSE LET value == Head(triggered)
             pos == IF value = None THEN None ELSE value[1][(2 - inf.axis) + 1]
         IN  IF value = None \/ pos = None
             THEN update_slider_value_unclamped(Tail(triggered), cur_index, inf)
             ELSE IF SetposIndex(pos[1], inf) = cur_index
                  THEN update_slider_value_unclamped(Tail(triggered), cur_index, inf)
                  ELSE Some(SetposIndex(pos[1], inf))

\* update_slider_value without the comparison with the index the slider
\* holds: a position is written to the slider whenever it is given.
RECURSIVE update_slider_value_always_writes(_, _, _)
update_slider_value_always_writes(triggered, cur_index, inf) ==
    IF triggered = <<>>
    THEN None
    ELSE LET value == Head(triggered)
             pos == IF value = None THEN None ELSE value[1][(2 - inf.axis) + 1]
         IN  IF value = None \/ pos = None
             THEN update_slider_value_always_writes(Tail(triggered), cur_index, inf)
             ELSE Some(Max(0, Min(inf.size[3] - 1, SetposIndex(pos[1], inf))))

\* update_slider_value(positions, cur_index, info): `triggered` is the
\* sequence of values of the setpos stores that triggered the callback.
\* <<>> is no_update, <<i>> the value written to the slider.
RECURSIVE update_slider_value(_, _, _)
update_slider_value(triggered, cur_index, inf) ==
    IF triggered = <<>>
    THEN None
    ELSE LET value == Head(triggered)
             pos == IF value = None THEN None ELSE value[1][(2 - inf.axis) + 1]
         IN  IF value = None \/ pos = None
             THEN update_slider_value(Tail(triggered), cur_index, inf)
             ELSE IF SetposIndex(pos[1], inf) = cur_index
                  THEN update_slider_value(Tail(triggered), cur_index, inf)
                  ELSE Some(Max(0, Min(inf.size[3] - 1, SetposIndex(pos[1], inf))))

\* A rate limiter that looks at the layout before it looks at the slider.
update_rate_limiting_info_layout_first(private, triggered, range_keys, n_intervals) ==
    IF "graph" \in triggered /\ range_keys
    THEN [private |-> [private EXCEPT !.timeout = Some(Now + LayoutTimeout)],
          disable_timer |-> FALSE]
    ELSE IF "slider" \in triggered
    THEN [private |-> [private EXCEPT !.timeout = Some(Now + SliderTimeout)],
          disable_timer |-> FALSE]
    ELSE IF n_intervals = 0
    THEN [private |-> [private EXCEPT !.timeout = Some(Now + InitTimeout)],
          disable_timer |-> FALSE]
    ELSE [private |-> private, disable_timer |-> private.timeout = None]

\* A rate limiter that waits no longer for the view than for the slider.
update_rate_limiting_info_short_layout(private, triggered, range_keys, n_intervals) ==
    IF "slider" \in triggered \/ ("graph" \in triggered /\ range_keys)
    THEN [private |-> [private EXCEPT !.timeout = Some(Now + SliderTimeout)],
          disable_timer |-> FALSE]
    ELSE IF n_intervals = 0
    THEN [private |-> [private EXCEPT !.timeout = Some(Now + InitTimeout)],
          disable_timer |-> FALSE]
    ELSE [private |-> private, disable_timer |-> private.timeout = None]

\* A rate limiter that stops its timer at every tick that is no input,
\* whether a deadline is pending or not.
update_rate_limiting_info_stops(private, triggered, range_keys, n_intervals) ==
    IF "slider" \in triggered
    THEN [private |-> [private EXCEPT !.timeout = Some(Now + SliderTimeout)],
          disable_timer |-> FALSE]
    ELSE IF "graph" \in triggered /\ range_keys
    THEN [private |-> [private EXCEPT !.timeout = Some(Now + LayoutTimeout)],
          disable_timer |-> FALSE]
    ELSE IF n_intervals = 0
    THEN [private |-> [private EXCEPT !.timeout = Some(Now + InitTimeout)],
          disable_timer |-> FALSE]
    ELSE [private |-> private, disable_timer |-> TRUE]

\* A throttle in the place of the debounce: a slider change leaves a
\* deadline that is pending where it is.
update_rate_limiting_info_throttle(private, triggered, range_keys, n_intervals) ==
    IF "slider" \in triggered
    THEN [private |-> IF private.timeout = None
                      THEN [private EXCEPT !.timeout = Some(Now + SliderTimeout)]
                      ELSE private,
          disable_timer |-> FALSE]
    ELSE IF "graph" \in triggered /\ range_keys
    THEN [private |-> [private EXCEPT !.timeout = Some(Now + LayoutTimeout)],
          disable_timer |-> FALSE]
    ELSE IF n_intervals = 0
    THEN [private |-> [private EXCEPT !.timeout = Some(Now + InitTimeout)],
          disable_timer |-> FALSE]
    ELSE [private |-> private, disable_timer |-> private.timeout = None]

\* A rate limiter that never stops its timer.
update_rate_limiting_info_running(private, triggered, range_keys, n_intervals) ==
    IF "slider" \in triggered
    THEN [private |-> [private EXCEPT !.timeout = Some(Now + SliderTimeout)],
          disable_timer |-> FALSE]
    ELSE IF "graph" \in triggered /\ range_keys
    THEN [private |-> [private EXCEPT !.timeout = Some(Now + LayoutTimeout)],
          disable_timer |-> FALSE]
    ELSE IF n_intervals = 0
    THEN [private |-> [private EXCEPT !.timeout = Some(Now + InitTimeout)],
          disable_timer |-> FALSE]
    ELSE [private |-> private, disable_timer |-> FALSE]

\* update_rate_limiting_info(index, relayoutData, n_intervals), as a
\* function of the private state: `triggered` is the set of components
\* ("slider", "graph", "timer") among the triggers, and range_keys tells
\* whether relayoutData has an xaxis.range or yaxis.range key.
update_rate_limiting_info(private, triggered, range_keys, n_intervals) ==
    LET slider_value_changed == "slider" \in triggered
        graph_layout_changed == "graph" \in triggered /\ range_keys
    IN  IF slider_value_changed
        THEN [private |-> [private EXCEPT !.timeout = Some(Now + SliderTimeout)],
              disable_timer |-> FALSE]
        ELSE IF graph_layout_changed
        THEN [private |-> [private EXCEPT !.timeout = Some(Now + LayoutTimeout)],
              disable_timer |-> FALSE]
        ELSE IF n_intervals = 0
        THEN [private |-> [private EXCEPT !.timeout = Some(Now + InitTimeout)],
              disable_timer |-> FALSE]
        ELSE IF private.timeout = None
        THEN [private |-> private, disable_timer |-> TRUE]
        ELSE [private |-> private, disable_timer |-> FALSE]

\* range[0] += 2 * (range[1] - range[0]) / plotSize
InsetLow(range, plot_size) ==
    <<QAdd(range[1], QDiv(QMul(QInt(2), QSub(range[2], range[1])), QInt(plot_size))),
      range[2]>>

\* range[1] -= 2 * (range[1] - range[0]) / plotSize
InsetHigh(range, plot_size) ==
    <<range[1],
      QSub(range[2], QDiv(QMul(QInt(2), QSub(range[2], range[1])), QInt(plot_size)))>>

RangeInset(range, plot_size) == InsetHigh(InsetLow(range, plot_size), plot_size)

\* [max(rangeVol[0], rangeFig[0]), min(rangeVol[1], rangeFig[1])]
RangeInVolume(range, offset, stepsize, size) ==
    <<QMax(QSub(QInt(offset), QMul(QHalf, QInt(stepsize))), range[1]),
      QMin(QAdd(QInt(offset), QMul(QSub(QInt(size), QHalf), QInt(stepsize))), range[2])>>

\* The view range the state reports: the figure's range, made increasing,
\* moved inwards by two pixels and cut to the volume.
StateRange(fig, offset, stepsize, size, plot_size) ==
    RangeInVolume(RangeInset(<<QMin(fig[1], fig[2]), QMax(fig[1], fig[2])>>, plot_size),
                  offset, stepsize, size)

\* A state that reports the index of the previous commit, when there is one.
StateIndexStale(index, private) ==
    IF private.last_index = None THEN index ELSE private.last_index[1]

\* The index a new state reports: the slider's value at the tick.
StateIndex(index, private) == index

\* update_state that does not wait for the plot to settle.
update_state_unsettled(private, n_intervals, index, inf, vw) ==
    IF ~(private.timeout # None /\ Now >= private.timeout[1])
    THEN [private |-> private, out |-> None]
    ELSE [private |-> [timeout |-> None,
                       last_index |-> Some(index),
                       infoid |-> Some(inf.infoid)],
          out |-> Some([index |-> index,
                        index_changed |-> Some(index) # private.last_index,
                        xrange |-> StateRange(vw.xrange, inf.offset[1], inf.stepsize[1],
                                              inf.size[1], PlotSizeEstimate),
                        yrange |-> StateRange(vw.yrange, inf.offset[2], inf.stepsize[2],
                                              inf.size[2], PlotSizeEstimate),
                        zpos |-> QInt(inf.offset[3] + index * inf.stepsize[3]),
                        axis |-> inf.axis,
                        color |-> inf.color])]

\* update_state that reports every commit as a change of the index.
update_state_always_changed(private, n_intervals, index, inf, vw) ==
    IF ~(private.timeout # None /\ Now >= private.timeout[1]) \/ n_intervals < SettleTicks
    THEN [private |-> private, out |-> None]
    ELSE [private |-> [timeout |-> None,
                       last_index |-> Some(index),
                       infoid |-> Some(inf.infoid)],
          out |-> Some([index |-> index,
                        index_changed |-> TRUE,
                        xrange |-> StateRange(vw.xrange, inf.offset[1], inf.stepsize[1],
                                              inf.size[1], PlotSizeEstimate),
                        yrange |-> StateRange(vw.yrange, inf.offset[2], inf.stepsize[2],
                                              inf.size[2], PlotSizeEstimate),
                        zpos |-> QInt(inf.offset[3] + index * inf.stepsize[3]),
                        axis |-> inf.axis,
                        color |-> inf.color])]

\* update_state(n_intervals, index, info, figure): vw is the figure's
\* layout range.  out is <<>> for no_update.
update_state(private, n_intervals, index, inf, vw) ==
    IF ~(private.timeout # None /\ Now >= private.timeout[1])
    THEN [private |-> private, out |-> None]
    ELSE IF n_intervals < SettleTicks
    THEN [private |-> private, out |-> None]
    ELSE LET i == StateIndex(index, private)
             changed == Some(i) # private.last_index \/ Some(inf.infoid) # private.infoid
             new_state ==
                [index |-> i,
                 index_changed |-> changed,
                 xrange |-> StateRange(vw.xrange, inf.offset[1], inf.stepsize[1],
                                       inf.size[1], PlotSizeEstimate),
                 yrange |-> StateRange(vw.yrange, inf.offset[2], inf.stepsize[2],
                                       inf.size[2], PlotSizeEstimate),
                 zpos |-> QInt(inf.offset[3] + i * inf.stepsize[3]),
                 axis |-> inf.axis,
                 color |-> inf.color]
         IN  [private |-> [timeout |-> None,
                           last_index |-> IF changed THEN Some(i) ELSE private.last_index,
                           infoid |-> Some(inf.infoid)],
              out |-> Some(new_state)]

\* A client that shows the thumbnail whatever the server sent.
SliceSource_thumbnail(index, server, thumbnails) ==
    IF index + 1 \in DOMAIN thumbnails
    THEN thumbnails[index + 1]
    ELSE UndefinedSource

\* The source of the slice trace: the server's slice on a hit, else the
\* thumbnail (undefined when the list has no such entry).
SliceSource(index, server, thumbnails) ==
    IF index = server.index
    THEN server.slice
    ELSE IF index + 1 \in DOMAIN thumbnails
         THEN thumbnails[index + 1]
         ELSE UndefinedSource

\* update_image_traces that scales the thumbnail and leaves its origin where
\* the origin of the full-resolution image is.
update_image_traces_unshifted(index, server, overlays, thumbnails, inf, current_traces) ==
    LET hit == index = server.index
        dx == IF hit THEN QInt(inf.stepsize[1])
              ELSE QMul(QInt(inf.stepsize[1]), Q(inf.size[1], inf.thumbnail_size[1]))
        dy == IF hit THEN QInt(inf.stepsize[2])
              ELSE QMul(QInt(inf.stepsize[2]), Q(inf.size[2], inf.thumbnail_size[2]))
        slice_source == SliceSource(index, server, thumbnails)
        overlay_source == IF index + 1 \in DOMAIN overlays /\ overlays[index + 1] # None
                          THEN overlays[index + 1][1]
                          ELSE EmptySource
        cur0 == IF current_traces = <<>> THEN EmptySource ELSE current_traces[1].source
        cur1 == IF current_traces = <<>> THEN EmptySource ELSE current_traces[2].source
    IN  IF slice_source = cur0 /\ overlay_source = cur1
        THEN None
        ELSE Some(<<[type |-> "image", source |-> slice_source,
                     x0 |-> QInt(inf.offset[1]), y0 |-> QInt(inf.offset[2]),
                     dx |-> dx, dy |-> dy],
                    [type |-> "image", source |-> overlay_source,
                     x0 |-> QInt(inf.offset[1]), y0 |-> QInt(inf.offset[2]),
                     dx |-> QInt(inf.stepsize[1]), dy |-> QInt(inf.stepsize[2])]>>)

\* update_image_traces(index, server_data, overlays, thumbnails, info,
\* current_traces): <<>> is no_update, else <<new_traces>>.
\* update_image_traces with the comparison of the slice source alone: a
\* new overlay on the same slice is no change.
update_image_traces_slice_only(index, server, overlays, thumbnails, inf, current_traces) ==
    LET hit == index = server.index
        dx == IF hit THEN QInt(inf.stepsize[1])
              ELSE QMul(QInt(inf.stepsize[1]), Q(inf.size[1], inf.thumbnail_size[1]))
        dy == IF hit THEN QInt(inf.stepsize[2])
              ELSE QMul(QInt(inf.stepsize[2]), Q(inf.size[2], inf.thumbnail_size[2]))
        x0 == IF hit THEN QInt(inf.offset[1])
              ELSE QAdd(QInt(inf.offset[1]),
                        QSub(QMul(QHalf, dx), QMul(QHalf, QInt(inf.stepsize[1]))))
        y0 == IF hit THEN QInt(inf.offset[2])
              ELSE QAdd(QInt(inf.offset[2]),
                        QSub(QMul(QHalf, dy), QMul(QHalf, QInt(inf.stepsize[2]))))
        slice_source == SliceSource(index, server, thumbnails)
        overlay_source == IF index + 1 \in DOMAIN overlays /\ overlays[index + 1] # None
                          THEN overlays[index + 1][1]
                          ELSE EmptySource
        slice_trace == [type |-> "image", source |-> slice_source,
                        x0 |-> x0, y0 |-> y0, dx |-> dx, dy |-> dy]
        overlay_trace == [type |-> "image", source |-> overlay_source,
                          x0 |-> QInt(inf.offset[1]), y0 |-> QInt(inf.offset[2]),
                          dx |-> QInt(inf.stepsize[1]), dy |-> QInt(inf.stepsize[2])]
        cur0 == IF current_traces = <<>> THEN EmptySource ELSE current_traces[1].source
    IN  IF slice_source = cur0
        THEN None
        ELSE Some(<<slice_trace, overlay_trace>>)

update_image_traces(index, server, overlays, thumbnails, inf, current_traces) ==
    LET hit == index = server.index
        dx == IF hit THEN QInt(inf.stepsize[1])
              ELSE QMul(QInt(inf.stepsize[1]), Q(inf.size[1], inf.thumbnail_size[1]))
        dy == IF hit THEN QInt(inf.stepsize[2])
              ELSE QMul(QInt(inf.stepsize[2]), Q(inf.size[2], inf.thumbnail_size[2]))
        x0 == IF hit THEN QInt(inf.offset[1])
              ELSE QAdd(QInt(inf.offset[1]),
                        QSub(QMul(QHalf, dx), QMul(QHalf, QInt(inf.stepsize[1]))))
        y0 == IF hit THEN QInt(inf.offset[2])
              ELSE QAdd(QInt(inf.offset[2]),
                        QSub(QMul(QHalf, dy), QMul(QHalf, QInt(inf.stepsize[2]))))
        slice_source == SliceSource(index, server, thumbnails)
        overlay_source == IF index + 1 \in DOMAIN overlays /\ overlays[index + 1] # None
                          THEN overlays[index + 1][1]
                          ELSE EmptySource
        slice_trace == [type |-> "image", source |-> slice_source,
                        x0 |-> x0, y0 |-> y0, dx |-> dx, dy |-> dy]
        overlay_trace == [type |-> "image", source |-> overlay_source,
                          x0 |-> QInt(inf.offset[1]), y0 |-> QInt(inf.offset[2]),
                          dx |-> QInt(inf.stepsize[1]), dy |-> QInt(inf.stepsize[2])]
        cur0 == IF current_traces = <<>> THEN EmptySource ELSE current_traces[1].source
        cur1 == IF current_traces = <<>> THEN EmptySource ELSE current_traces[2].source
    IN  IF slice_source = cur0 /\ overlay_source = cur1
        THEN None
        ELSE Some(<<slice_trace, overlay_trace>>)

\* The lookup with the entry of the axes (0, 2) turned by a quarter.
IndicatorLine_swapped(axis, st) ==
    LET zpos == <<st.zpos, st.zpos>>
        xy == IF axis = 0 /\ st.axis = 1 THEN Some(<<st.xrange, zpos>>)
              ELSE IF axis = 0 /\ st.axis = 2 THEN Some(<<st.xrange, zpos>>)
              ELSE IF axis = 1 /\ st.axis = 2 THEN Some(<<zpos, st.yrange>>)
              ELSE IF axis = 1 /\ st.axis = 0 THEN Some(<<st.xrange, zpos>>)
              ELSE IF axis = 2 /\ st.axis = 0 THEN Some(<<st.yrange, zpos>>)
              ELSE IF axis = 2 /\ st.axis = 1 THEN Some(<<zpos, st.yrange>>)
              ELSE None
    IN  IF xy = None
        THEN None
        ELSE Some([type |-> "scatter", x |-> xy[1][1], y |-> xy[1][2],
                   line |-> [color |-> st.color, width |-> 1]])

\* The line that shows a peer's slice in this slicer's plane, <<>> if none.
IndicatorLine(axis, st) ==
    LET zpos == <<st.zpos, st.zpos>>
        xy == IF axis = 0 /\ st.axis = 1 THEN Some(<<st.xrange, zpos>>)
              ELSE IF axis = 0 /\ st.axis = 2 THEN Some(<<zpos, st.xrange>>)
              ELSE IF axis = 1 /\ st.axis = 2 THEN Some(<<zpos, st.yrange>>)
              ELSE IF axis = 1 /\ st.axis = 0 THEN Some(<<st.xrange, zpos>>)
              ELSE IF axis = 2 /\ st.axis = 0 THEN Some(<<st.yrange, zpos>>)
              ELSE IF axis = 2 /\ st.axis = 1 THEN Some(<<zpos, st.yrange>>)
              ELSE None
    IN  IF xy = None
        THEN None
        ELSE Some([type |-> "scatter", x |-> xy[1][1], y |-> xy[1][2],
                   line |-> [color |-> st.color, width |-> 1]])

\* The frame in the slicer's own color.
CornerSize(lengthx, lengthy, lengthz) ==
    QMin(QMul(Q(1, 10), QDiv(QAdd(QAdd(lengthx, lengthy), lengthz), QInt(3))),
         QMul(Q(45, 100), QMin(lengthx, QMin(lengthy, lengthz))))

Corners(x1, x2, x3, x4, y1, y2, y3, y4, color) ==
    [type |-> "scatter",
     x |-> <<x1, x1, x2, None, x3, x4, x4, None, x4, x4, x3, None, x2, x1, x1>>,
     y |-> <<y2, y1, y1, None, y1, y1, y2, None, y3, y4, y4, None, y4, y4, y3>>,
     line |-> [color |-> color, width |-> 4]]

CornersOf(this, dd, color) ==
    Corners(this.xrange[1], QAdd(this.xrange[1], dd),
            QSub(this.xrange[2], dd), this.xrange[2],
            this.yrange[1], QAdd(this.yrange[1], dd),
            QSub(this.yrange[2], dd), this.yrange[2], color)

SelfIndicator(inf, this) ==
    CornersOf(this,
              CornerSize(QInt(inf.size[1] * inf.stepsize[1]),
                         QInt(inf.size[2] * inf.stepsize[2]),
                         QInt(inf.size[3] * inf.stepsize[3])),
              inf.color)

RECURSIVE PeerLines(_, _)
PeerLines(states, axis) ==
    IF states = <<>>
    THEN <<>>
    ELSE LET st == Head(states)
             line == IF st = None THEN None ELSE IndicatorLine(axis, st[1])
         IN  line \o PeerLines(Tail(states), axis)

\* update_indicator_traces that frames every slicer with a color and a state.
update_indicator_traces_framed(states, inf, thisState) ==
    LET lines == PeerLines(states, inf.axis)
        traces == IF thisState # None /\ inf.color # ""
                  THEN Append(lines, SelfIndicator(inf, thisState[1]))
                  ELSE lines
    IN  IF thisState # None THEN Some(traces) ELSE None

\* update_indicator_traces(states, info, thisState): states are the values
\* of the state stores of the scene, in layout order.  <<>> is no_update.
update_indicator_traces(states, inf, thisState) ==
    LET lines == PeerLines(states, inf.axis)
        traces == IF thisState # None /\ inf.color # "" /\ lines # <<>>
                  THEN Append(lines, SelfIndicator(inf, thisState[1]))
                  ELSE lines
    IN  IF thisState # None THEN Some(traces) ELSE None

\* update_figure with the extra traces pushed last.
update_figure_extras_last(img, indicators, extra) ==
    img \o SelectSeq(indicators, LAMBDA t : t.line.color # "") \o extra

\* update_figure without `if (trace.line.color)`.
update_figure_unfiltered(img, indicators, extra) ==
    img \o extra \o indicators

\* update_figure(img_traces, indicator_traces, extra_traces, info,
\* ori_figure): the new figure.data; the rest of the figure is kept.
update_figure(img, indicators, extra) ==
    img \o extra \o SelectSeq(indicators, LAMBDA t : t.line.color # "")

\* '' and null as the slice of the initial server_data.
NullSource == [tag |-> "null", index |-> -1, clim |-> -1, w |-> 0, h |-> 0]

\* self._create_server_callbacks(): the outputs that get a server callback.
ServerCallbacks(param) ==
    {"thumbs"} \cup (IF param # None THEN {"server-data"} ELSE {})

\* The values of the constructor's arguments carry their Python type:
\*   app       [type, obj]        "Dash" | "str"; obj names the object
\*   volume    [type, ndim, shape, obj]  "ndarray" | "list"; obj is id(volume)
\*   axis      <<type, n>>        "int" | "float"
\*   clim      [type, len]        "NoneType" | "tuple" | "list" | "int"
\*   thumbnail <<type, n>>        "bool" | "int" | "float" | "NoneType"
\*   scene_id  [type, val]        "NoneType" | "str" | "int"
\* The process-wide state g is
\*   [counter   VolumeSlicer._global_slicer_counter,
\*    assigned  _assigned_scene_ids, a set of [vol, name] with one name per vol,
\*    objects   the slicers constructed, in order,
\*    callbacks the outputs that got a callback, with the app they are on,
\*    raised    the exception of the last call, or ""].

\* self._subid(name): the id of a component of the slicer.
subid(context_id, name) == context_id \o "-" \o name

\* window._slicer_{{ID}}: the key of the rate limiter's private state.
private_state_key(context_id) == "_slicer_" \o context_id

\* _assigned_scene_ids.setdefault(id(volume), f"vol{n}") with
\* n = len(_assigned_scene_ids): the registry after the call.
setdefault(assigned, vol) ==
    IF \E r \in assigned : r.vol = vol
    THEN assigned
    ELSE assigned \cup {[vol |-> vol, name |-> "vol" \o ToString(Cardinality(assigned))]}

\* A constructor that numbers the slicers of each app on their own.
VolumeSlicerInit_per_app(g, c) ==
    IF c.app.type # "Dash" \/ c.volume.type # "ndarray" \/ c.volume.ndim # 3
         \/ c.clim.type \notin {"NoneType", "tuple"} \/ c.thumbnail[1] \notin {"int", "bool"}
         \/ c.scene_id.type \notin {"NoneType", "str"}
    THEN [g EXCEPT !.raised = "TypeError"]
    ELSE IF c.axis[1] # "int" \/ c.axis[2] \notin 0..2
         THEN [g EXCEPT !.raised = "ValueError"]
         ELSE LET n == Cardinality({i \in DOMAIN g.objects :
                                      g.objects[i].app = c.app.obj}) + 1
              IN  [g EXCEPT !.counter = @ + 1,
                            !.objects = Append(@, [context_id |-> "slicer" \o ToString(n),
                                                   scene_id |-> "vol0",
                                                   volume |-> c.volume.obj,
                                                   explicit |-> FALSE,
                                                   app |-> c.app.obj]),
                            !.raised = ""]

\* A constructor that names the default scene after the number of slicers.
VolumeSlicerInit_scene_per_slicer(g, c) ==
    IF c.app.type # "Dash" \/ c.volume.type # "ndarray" \/ c.volume.ndim # 3
         \/ c.clim.type \notin {"NoneType", "tuple"} \/ c.thumbnail[1] \notin {"int", "bool"}
         \/ c.scene_id.type \notin {"NoneType", "str"}
    THEN [g EXCEPT !.raised = "TypeError"]
    ELSE IF c.axis[1] # "int" \/ c.axis[2] \notin 0..2
         THEN [g EXCEPT !.raised = "ValueError"]
         ELSE [g EXCEPT !.counter = @ + 1,
                        !.objects = Append(@, [context_id |-> "slicer" \o ToString(g.counter + 1),
                                               scene_id |-> IF c.scene_id.type = "NoneType"
                                                            THEN "vol" \o ToString(g.counter)
                                                            ELSE c.scene_id.val,
                                               volume |-> c.volume.obj,
                                               explicit |-> c.scene_id.type # "NoneType",
                                               app |-> c.app.obj]),
                        !.raised = ""]

\* A constructor that takes any axis and any thumbnail.
VolumeSlicerInit_lenient(g, c) ==
    IF c.app.type # "Dash" \/ c.volume.type # "ndarray" \/ c.volume.ndim # 3
         \/ c.clim.type \notin {"NoneType", "tuple"}
         \/ c.scene_id.type \notin {"NoneType", "str"}
    THEN [g EXCEPT !.raised = "TypeError"]
    ELSE [g EXCEPT !.counter = @ + 1,
                   !.objects = Append(@, [context_id |-> "slicer" \o ToString(g.counter + 1),
                                          scene_id |-> c.scene_id.val,
                                          volume |-> c.volume.obj,
                                          explicit |-> TRUE,
                                          app |-> c.app.obj]),
                   !.raised = ""]

\* A constructor that takes its context number before it checks its
\* arguments.
VolumeSlicerInit_counts_first(g, c) ==
    IF c.app.type # "Dash" \/ ~(c.volume.type = "ndarray" /\ c.volume.ndim = 3)
         \/ ~(c.clim.type = "NoneType" \/ (c.clim.type \in {"tuple", "list"} /\ c.clim.len = 2))
         \/ c.thumbnail[1] \notin {"int", "bool"}
         \/ c.scene_id.type \notin {"NoneType", "str"}
    THEN [g EXCEPT !.counter = @ + 1, !.raised = "TypeError"]
    ELSE IF ~(c.axis[1] = "int" /\ 0 <= c.axis[2] /\ c.axis[2] <= 2)
    THEN [g EXCEPT !.counter = @ + 1, !.raised = "ValueError"]
    ELSE LET assigned == IF c.scene_id.type = "NoneType"
                         THEN setdefault(g.assigned, c.volume.obj)
                         ELSE g.assigned
             scene_id == IF c.scene_id.type = "NoneType"
                         THEN (CHOOSE r \in assigned : r.vol = c.volume.obj).name
                         ELSE c.scene_id.val
             context_id == "slicer" \o ToString(g.counter + 1)
             param == ThumbnailParam(c.thumbnail, c.volume.shape)
         IN  [counter |-> g.counter + 1,
              assigned |-> assigned,
              objects |-> Append(g.objects, [context_id |-> context_id,
                                             scene_id |-> scene_id,
                                             volume |-> c.volume.obj,
                                             explicit |-> c.scene_id.type # "NoneType",
                                             app |-> c.app.obj]),
              callbacks |-> g.callbacks
                              \cup {[app |-> c.app.obj, output |-> subid(context_id, name)]
                                    : name \in ServerCallbacks(param)},
              raised |-> ""]

\* VolumeSlicer.__init__(app, volume, axis=, clim=, scene_id=, thumbnail=)
\* in the process-wide state g, for the arguments c: the checks in the order
\* of the code, the first failing one raising, then the scene id, the
\* counter and the context id, the components and the callbacks.
VolumeSlicerInit(g, c) ==
    IF c.app.type # "Dash"
    THEN [g EXCEPT !.raised = "TypeError"]
    ELSE IF ~(c.volume.type = "ndarray" /\ c.volume.ndim = 3)
    THEN [g EXCEPT !.raised = "TypeError"]
    ELSE IF ~(c.axis[1] = "int" /\ 0 <= c.axis[2] /\ c.axis[2] <= 2)
    THEN [g EXCEPT !.raised = "ValueError"]
    ELSE IF ~(c.clim.type = "NoneType" \/ (c.clim.type \in {"tuple", "list"} /\ c.clim.len = 2))
    THEN [g EXCEPT !.raised = "TypeError"]
    ELSE IF c.thumbnail[1] \notin {"int", "bool"}
    THEN [g EXCEPT !.raised = "TypeError"]
    ELSE IF c.scene_id.type \notin {"NoneType", "str"}
    THEN [g EXCEPT !.raised = "TypeError"]
    ELSE LET assigned == IF c.scene_id.type = "NoneType"
                         THEN setdefault(g.assigned, c.volume.obj)
                         ELSE g.assigned
             scene_id == IF c.scene_id.type = "NoneType"
                         THEN (CHOOSE r \in assigned : r.vol = c.volume.obj).name
                         ELSE c.scene_id.val
             context_id == "slicer" \o ToString(g.counter + 1)
             param == ThumbnailParam(c.thumbnail, c.volume.shape)
         IN  [counter |-> g.counter + 1,
              assigned |-> assigned,
              objects |-> Append(g.objects, [context_id |-> context_id,
                                             scene_id |-> scene_id,
                                             volume |-> c.volume.obj,
                                             explicit |-> c.scene_id.type # "NoneType",
                                             app |-> c.app.obj]),
              callbacks |-> g.callbacks
                              \cup {[app |-> c.app.obj, output |-> subid(context_id, name)]
                                    : name \in ServerCallbacks(param)},
              raised |-> ""]

-----------------------------------------------------------------------------
(* The state: the properties of the Dash components of every slicer.       *)

VARIABLES
    slicers,            \* the slicer objects constructed, 1..n in order
    ctor,               \* the constructor arguments of each
    info,               \* Store info: self._slice_info
    thumbnail_param,    \* self._thumbnail_param
    callback_map,       \* the server callbacks registered for the slicer
    observed,           \* the history variables that are kept
    views,              \* the views a user chooses among
    slider,             \* Slider.value, the raw index
    view,               \* figure.layout.xaxis.range / yaxis.range
    timer,              \* Interval: disabled, n_intervals, time to next tick
    private_state,      \* window._slicer_<ID>: timeout, last_index, infoid
    state,              \* Store state (rate limited), None until committed
    clim,               \* Store clim
    thumbs,             \* Store thumbs
    overlay,            \* Store overlay
    server_data,        \* Store server-data
    img_traces,         \* Store img-traces
    indicator_traces,   \* Store indicator-traces
    extra_traces,       \* Store extra-traces
    figure_data,        \* Graph.figure.data
    thumbs_pending,     \* upload_thumbnails responses on their way
    slices_pending,     \* upload_requested_slice responses on their way
    input_budget,       \* the inputs the user may still give, None if unlimited
    ev,                 \* history: the last event and the outputs it wrote
    burst,              \* history: the current burst of slider changes
    idle_ticks,         \* history: ticks of a running timer since the last input
    committed,          \* history: the indices committed so far
    arg,                \* the input of a function under study
    res                 \* the result of the function under study

config == <<slicers, ctor, info, thumbnail_param, callback_map, observed, views>>
stores == <<clim, thumbs, overlay, server_data, extra_traces>>
traces == <<img_traces, indicator_traces, figure_data>>
pendings == <<thumbs_pending, slices_pending>>
history == <<ev, burst, idle_ticks, committed>>
pure == <<arg, res>>
vars == <<config, slider, view, timer, private_state, state, stores, traces,
          pendings, input_budget, history, pure>>

\* The time after which a burst is no longer timed: by then its commit is
\* due, a tick being at most one period away.
MaxSince == SliderTimeout + TimerInterval
\* idle_ticks is counted up to this value.
MaxIdleTicks == 8
\* The inputs a user gives to a scene of two slicers.
MaxInputs == 1
\* The times a user drags the slider of a slicer with any thumbnail argument.
MaxDrags == 2

\* No burst of slider changes is being followed.
NoBurst == [tracked |-> FALSE, many |-> FALSE, since |-> MaxSince, commits |-> 0]

-----------------------------------------------------------------------------
(* The environment: what the plot and the user can produce.                *)

\* The autoranged view of the image: the extent of the volume; the y axis
\* is reversed (reverse_y).
AutoRange(inf) ==
    [xrange |-> <<QSub(QInt(inf.offset[1]), QMul(QHalf, QInt(inf.stepsize[1]))),
                  QAdd(QInt(inf.offset[1]),
                       QMul(QSub(QInt(inf.size[1]), QHalf), QInt(inf.stepsize[1])))>>,
     yrange |-> <<QAdd(QInt(inf.offset[2]),
                       QMul(QSub(QInt(inf.size[2]), QHalf), QInt(inf.stepsize[2]))),
                  QSub(QInt(inf.offset[2]), QMul(QHalf, QInt(inf.stepsize[2])))>>]

\* A view the user zoomed into.
ZoomedRange(inf) ==
    [xrange |-> <<QInt(inf.offset[1]), QInt(inf.offset[1] + inf.stepsize[1])>>,
     yrange |-> <<QInt(inf.offset[2] + inf.stepsize[2]), QInt(inf.offset[2])>>]

Views(inf) == {AutoRange(inf), ZoomedRange(inf)}

\* The points of the image a user clicks on.
ClickPoints(inf) ==
    {<<inf.offset[1], inf.offset[2]>>,
     <<inf.offset[1] + (inf.size[1] - 1) * inf.stepsize[1],
       inf.offset[2] + (inf.size[2] - 1) * inf.stepsize[2]>>}

\* The values an application publishes on a setpos store: (x, y, z) with
\* None for the dimensions to leave alone, positions on, between and far
\* outside the slices, and null.
Positions ==
    {None,
     Some(<<None, None, None>>),
     Some(<<None, None, Some(2)>>),
     Some(<<None, Some(0), None>>),
     Some(<<Some(0), Some(9), Some(-7)>>),
     Some(<<Some(0), Some(0), Some(5)>>)}

HasBudget == IF input_budget = None THEN TRUE ELSE input_budget[1] > 0
Spend == input_budget' = IF input_budget = None THEN None ELSE Some(input_budget[1] - 1)

-----------------------------------------------------------------------------
(* Construction and page load.                                             *)

\* The image traces after the initial call of update_image_traces.
InitialImgTraces(inf, index) ==
    update_image_traces(index, [index |-> -1, slice |-> NullSource], <<>>, <<>>,
                        inf, <<>>)[1]

\* dcc.Interval(interval=100, disabled=True)
InitialTimer == [disabled |-> TRUE, n_intervals |-> 0, due |-> TimerInterval]

\* Interval.disabled is set: the timer restarts when it gets enabled.
SetDisabled(t, disable) ==
    [disabled |-> disable,
     n_intervals |-> t.n_intervals,
     due |-> IF disable \/ t.disabled THEN TimerInterval ELSE t.due]

\* The plot is drawn and reports relayoutData {autosize: true}: the first
\* call of update_rate_limiting_info, on an empty window._slicer_<ID>.
FirstDraw ==
    update_rate_limiting_info([timeout |-> None, last_index |-> None, infoid |-> None],
                              {"graph"}, FALSE, InitialTimer.n_intervals)

\* The state after VolumeSlicer(app, ...) was called for each element of
\* args, the layout was served, the client ran the callbacks' initial calls,
\* sent the initial requests of the server callbacks and drew the plots.
InitWith(args, budget, obs) ==
    /\ slicers = DOMAIN args
    /\ observed = obs
    /\ ctor = args
    /\ info = [s \in DOMAIN args |-> SliceInfo(args[s], s)]
    /\ thumbnail_param = [s \in DOMAIN args |->
                            ThumbnailParam(args[s].thumbnail, args[s].shape)]
    /\ callback_map = [s \in DOMAIN args |->
                         ServerCallbacks(ThumbnailParam(args[s].thumbnail, args[s].shape))]
    /\ slider = [s \in DOMAIN args |-> info[s].size[3] \div 2]
    /\ views = [s \in DOMAIN args |-> Views(info[s])]
    /\ view = [s \in DOMAIN args |-> AutoRange(info[s])]
    /\ timer = [s \in DOMAIN args |-> SetDisabled(InitialTimer, FirstDraw.disable_timer)]
    /\ private_state = [s \in DOMAIN args |-> FirstDraw.private]
    /\ state = [s \in DOMAIN args |-> None]
    /\ clim = [s \in DOMAIN args |-> args[s].clim]
    /\ thumbs = [s \in DOMAIN args |-> <<>>]
    /\ overlay = [s \in DOMAIN args |-> <<>>]
    /\ server_data = [s \in DOMAIN args |-> [index |-> -1, slice |-> NullSource]]
    /\ img_traces = [s \in DOMAIN args |-> InitialImgTraces(info[s], slider[s])]
    /\ indicator_traces = [s \in DOMAIN args |-> <<>>]
    /\ extra_traces = [s \in DOMAIN args |-> <<>>]
    /\ figure_data = [s \in DOMAIN args |->
                        update_figure(img_traces[s], <<>>, <<>>)]
    /\ thumbs_pending = {[s |-> s,
                          data |-> upload_thumbnails(clim[s], info[s], thumbnail_param[s])]
                         : s \in DOMAIN args}
    /\ slices_pending = {}
    /\ input_budget = budget
    /\ ev = [act |-> "init", s |-> 0, pos |-> None, out |-> {}]
    /\ burst = [s \in DOMAIN args |-> NoBurst]
    /\ idle_ticks = [s \in DOMAIN args |-> 0]
    /\ committed = [s \in DOMAIN args |-> {}]

-----------------------------------------------------------------------------
(* How the client propagates a write.                                      *)

SameScene(s) == {t \in slicers : ctor[t].scene_id = ctor[s].scene_id}

\* The values of the state stores Input({scene, context: ALL, name: state})
\* collects for slicer s, from the stores st, in layout order.
RECURSIVE StatesFrom(_, _, _)
StatesFrom(st, s, t) ==
    IF t \notin slicers
    THEN <<>>
    ELSE (IF t \in SameScene(s) THEN <<st[t]>> ELSE <<>>) \o StatesFrom(st, s, t + 1)

\* A subscription to the slicer's own state store alone.
SceneStatesOwn(st, s) == <<st[s]>>

SceneStates(st, s) == StatesFrom(st, s, 1)

\* The outputs the client writes when update_image_traces returned img for
\* slicer s: the store, unless no_update, and then the figure.
ImgOutputs(s, img) ==
    IF img = None THEN {} ELSE {<<s, "img-traces">>, <<s, "figure">>}

\* The burst of s after its slider was written: a write less than
\* SliderTimeout after the last one continues the burst, another one starts
\* a burst, which is followed if the plot has settled.  Where "quiet" is
\* observed, every write is followed, whatever comes between the writes:
\* since is the time since the last write and commits counts the commits
\* after it.  Where "view" is observed, the changes of the view range are
\* followed in the place of the writes of the slider, and many tells that
\* the slider was written after the last of them.
NextBurst(s) ==
    IF "view" \in observed
    THEN [burst[s] EXCEPT !.many = burst[s].tracked]
    ELSE IF "quiet" \in observed
    THEN [tracked |-> TRUE, many |-> burst[s].tracked /\ burst[s].since < SliderTimeout,
          since |-> 0, commits |-> 0]
    ELSE IF "burst" \notin observed
    THEN NoBurst
    ELSE IF burst[s].tracked /\ burst[s].since < SliderTimeout
    THEN [burst[s] EXCEPT !.since = 0, !.many = TRUE]
    ELSE IF timer[s].n_intervals >= SettleTicks
    THEN [tracked |-> TRUE, many |-> FALSE, since |-> 0, commits |-> 0]
    ELSE NoBurst

\* The sliders of the slicers in DOMAIN val were written by the event
\* (act, s0, pos): update_rate_limiting_info returned lim and
\* update_image_traces returned img, and update_figure follows.
SlidersWritten(act, s0, pos, val, lim, img) ==
    /\ slider' = [s \in slicers |-> IF s \in DOMAIN val THEN val[s] ELSE slider[s]]
    /\ private_state' = [s \in slicers |->
                           IF s \in DOMAIN val THEN lim[s].private ELSE private_state[s]]
    /\ timer' = [s \in slicers |->
                   IF s \in DOMAIN val THEN SetDisabled(timer[s], lim[s].disable_timer)
                   ELSE timer[s]]
    /\ img_traces' = [s \in slicers |->
                        IF s \in DOMAIN val /\ img[s] # None THEN img[s][1]
                        ELSE img_traces[s]]
    /\ figure_data' = [s \in slicers |->
                         IF s \in DOMAIN val /\ img[s] # None
                         THEN update_figure(img[s][1], indicator_traces[s],
                                            extra_traces[s])
                         ELSE figure_data[s]]
    /\ burst' = [s \in slicers |-> IF s \in DOMAIN val THEN NextBurst(s) ELSE burst[s]]
    /\ idle_ticks' = [s \in slicers |-> IF s \in DOMAIN val THEN 0 ELSE idle_ticks[s]]
    /\ ev' = [act |-> act, s |-> s0, pos |-> pos,
              out |-> UNION {{<<s, "slider">>, <<s, "timer">>} \cup ImgOutputs(s, img[s])
                             : s \in DOMAIN val}]
    /\ UNCHANGED <<config, view, state, stores, indicator_traces, pendings,
                   committed>>

\* The slider of the slicers in DOMAIN val is written: the rate limiter,
\* the image traces and the figure follow.
WriteSliders(act, s0, pos, val) ==
    SlidersWritten(act, s0, pos, val,
                   [s \in DOMAIN val |->
                      update_rate_limiting_info(private_state[s], {"slider"}, FALSE,
                                                timer[s].n_intervals)],
                   [s \in DOMAIN val |->
                      update_image_traces(val[s], server_data[s], overlay[s], thumbs[s],
                                          info[s], img_traces[s])])

\* The values written where update_slider_value returned r[s].
Written(r) == [s \in {u \in DOMAIN r : r[u] # None} |-> r[s][1]]

-----------------------------------------------------------------------------
(* The events.                                                             *)

\* The user drags the slider of s to v.
SliderMove(s, v) ==
    /\ HasBudget
    /\ Spend
    /\ v # slider[s]
    /\ WriteSliders("slider", s, None, [t \in {s} |-> v])
    /\ UNCHANGED pure

\* A setpos store of the scene of s gets `value`: update_slider_value runs
\* in every slicer of the scene.
Publish(act, s, value) ==
    /\ HasBudget
    /\ Spend
    /\ WriteSliders(act, s, value,
                    Written([t \in SameScene(s) |->
                               update_slider_value(<<value>>, slider[t], info[t])]))
    /\ UNCHANGED pure

\* The user clicks on a point of the image of s.
Click(s, point) ==
    Publish("click", s, update_setpos_from_click(Some(point), slider[s], info[s]))

\* The application writes a setpos store of its own, of the scene of s.
SetPos(s, value) ==
    Publish("setpos", s, value)

\* The relayout of s to the view v, update_rate_limiting_info having
\* returned lim.
Relaid(s, range_keys, v, lim) ==
    /\ view' = [view EXCEPT ![s] = v]
    /\ private_state' = [private_state EXCEPT ![s] = lim.private]
    /\ timer' = [timer EXCEPT ![s] = SetDisabled(timer[s], lim.disable_timer)]
    /\ burst' = [burst EXCEPT ![s] =
                    IF range_keys /\ "view" \in observed
                    THEN [tracked |-> TRUE, many |-> FALSE, since |-> 0, commits |-> 0]
                    ELSE IF range_keys /\ "quiet" \notin observed
                    THEN NoBurst ELSE @]
    /\ idle_ticks' = [idle_ticks EXCEPT ![s] = 0]
    /\ ev' = [act |-> "relayout", s |-> s, pos |-> None, out |-> {<<s, "timer">>}]
    /\ UNCHANGED <<config, slider, state, stores, traces, pendings, committed, pure>>

\* The plot reports a relayout of s: the user panned or zoomed to the view
\* v (relayoutData has range keys), or changed something else.
Relayout(s, range_keys, v) ==
    /\ HasBudget
    /\ Spend
    /\ IF range_keys THEN v # view[s] ELSE v = view[s]
    /\ Relaid(s, range_keys, v,
              update_rate_limiting_info(private_state[s], {"graph"}, range_keys,
                                        timer[s].n_intervals))

\* What a tick's two callbacks returned: the state (or no_update), whether
\* to disable the timer, and the private state they leave.
StateThenLimiter(upd, lim) ==
    [out |-> upd.out, private |-> lim.private, disable_timer |-> lim.disable_timer]

LimiterThenState(lim, upd) ==
    [out |-> upd.out, private |-> upd.private, disable_timer |-> lim.disable_timer]

StateFirst(upd, n) ==
    StateThenLimiter(upd, update_rate_limiting_info(upd.private, {"timer"}, FALSE, n))

LimiterFirst(lim, n, index, inf, vw) ==
    LimiterThenState(lim, update_state(lim.private, n, index, inf, vw))

\* n_intervals triggers update_state and update_rate_limiting_info, in
\* either order.
TickCallbacks(private, n, index, inf, vw, state_first) ==
    IF state_first
    THEN StateFirst(update_state(private, n, index, inf, vw), n)
    ELSE LimiterFirst(update_rate_limiting_info(private, {"timer"}, FALSE, n),
                      n, index, inf, vw)

\* The state stores once s wrote out (<<>> for no_update).
NewStates(s, out) == IF out = None THEN state ELSE [state EXCEPT ![s] = out]

\* Indicators that are recomputed in every slicer of the layout, from the
\* states of all of them, whatever their scene.
IndicatorUpdates_every_scene(s, out) ==
    IF out = None
    THEN [t \in {} |-> None]
    ELSE [t \in slicers |->
            update_indicator_traces([u \in slicers |-> NewStates(s, out)[u]], info[t],
                                    NewStates(s, out)[t])]

\* What update_indicator_traces returns in each slicer that the new state
\* of s triggers.
IndicatorUpdates(s, out) ==
    IF out = None
    THEN [t \in {} |-> None]
    ELSE [t \in SameScene(s) |->
            update_indicator_traces(SceneStates(NewStates(s, out), t), info[t],
                                    NewStates(s, out)[t])]

\* The requests a new state of s sends to the server, as the responses
\* they will get; a request that is answered no_update leaves no trace.
SliceRequests(s, out, cl) ==
    IF out # None /\ "server-data" \in callback_map[s]
       /\ upload_requested_slice(out, cl, info[s]) # None
    THEN {[s |-> s, data |-> upload_requested_slice(out, cl, info[s])[1]]}
    ELSE {}

\* The tick of s, n being the new n_intervals: its callbacks returned r,
\* update_indicator_traces returned ind, and update_figure follows.
Ticked(s, n, r, ind, requests) ==
    /\ timer' = [timer EXCEPT ![s] =
                    [disabled |-> r.disable_timer, n_intervals |-> n,
                     due |-> TimerInterval]]
    /\ private_state' = [private_state EXCEPT ![s] = r.private]
    /\ state' = NewStates(s, r.out)
    /\ indicator_traces' = [t \in slicers |->
                              IF t \in DOMAIN ind /\ ind[t] # None THEN ind[t][1]
                              ELSE indicator_traces[t]]
    /\ figure_data' = [t \in slicers |->
                         IF t \in DOMAIN ind /\ ind[t] # None
                         THEN update_figure(img_traces[t], ind[t][1], extra_traces[t])
                         ELSE figure_data[t]]
    /\ slices_pending' = slices_pending \cup requests
    /\ burst' = [burst EXCEPT ![s] =
                    IF r.out = None \/ ~@.tracked THEN @
                    ELSE [@ EXCEPT !.commits = Min(2, @ + 1)]]
    /\ idle_ticks' = [idle_ticks EXCEPT ![s] =
                         IF r.disable_timer \/ "idle_ticks" \notin observed THEN 0
                         ELSE Min(MaxIdleTicks, @ + 1)]
    /\ committed' = [committed EXCEPT ![s] =
                        IF r.out = None \/ "committed" \notin observed THEN @
                        ELSE @ \cup {r.out[1].index}]
    /\ ev' = [act |-> "tick", s |-> s, pos |-> None,
              out |-> {<<s, "timer">>}
                      \cup (IF r.out = None THEN {} ELSE {<<s, "state">>})
                      \cup UNION {IF ind[t] = None THEN {}
                                  ELSE {<<t, "indicator-traces">>, <<t, "figure">>}
                                  : t \in DOMAIN ind}
                      \cup {<<q.s, "request">> : q \in requests}]
    /\ UNCHANGED <<config, slider, view, stores, img_traces, thumbs_pending,
                   input_budget>>

TickedWith(s, n, r) ==
    Ticked(s, n, r, IndicatorUpdates(s, r.out), SliceRequests(s, r.out, clim[s]))

\* The timer of s ticks.
Tick(s, state_first) ==
    /\ ~timer[s].disabled
    /\ timer[s].due = 0
    /\ TickedWith(s, Min(MaxIntervals, timer[s].n_intervals + 1),
                  TickCallbacks(private_state[s],
                                Min(MaxIntervals, timer[s].n_intervals + 1),
                                slider[s], info[s], view[s], state_first))
    /\ UNCHANGED pure

\* A store of s that update_image_traces reads was written by the event
\* act, and update_image_traces returned img.
ImageInputWritten(act, s, store, img) ==
    /\ img_traces' = [img_traces EXCEPT ![s] = IF img = None THEN @ ELSE img[1]]
    /\ figure_data' = [figure_data EXCEPT ![s] =
                         IF img = None THEN @
                         ELSE update_figure(img[1], indicator_traces[s], extra_traces[s])]
    /\ ev' = [act |-> act, s |-> s, pos |-> None,
              out |-> {<<s, store>>} \cup ImgOutputs(s, img)]
    /\ UNCHANGED <<config, slider, view, timer, private_state, state, clim, overlay,
                   extra_traces, indicator_traces, input_budget, burst, idle_ticks,
                   committed, pure>>

\* The response of upload_thumbnails arrives.
ThumbsResponse(r) ==
    /\ r \in thumbs_pending
    /\ thumbs_pending' = thumbs_pending \ {r}
    /\ thumbs' = [thumbs EXCEPT ![r.s] = r.data]
    /\ ImageInputWritten("thumbs", r.s, "thumbs",
                         update_image_traces(slider[r.s], server_data[r.s], overlay[r.s],
                                             r.data, info[r.s], img_traces[r.s]))
    /\ UNCHANGED <<server_data, slices_pending>>

\* The response of upload_requested_slice arrives.
SliceResponse(r) ==
    /\ r \in slices_pending
    /\ slices_pending' = slices_pending \ {r}
    /\ server_data' = [server_data EXCEPT ![r.s] = r.data]
    /\ ImageInputWritten("slice", r.s, "server-data",
                         update_image_traces(slider[r.s], r.data, overlay[r.s],
                                             thumbs[r.s], info[r.s], img_traces[r.s]))
    /\ UNCHANGED <<thumbs, thumbs_pending>>

\* The application writes the clim store of s: upload_thumbnails is
\* requested, and upload_requested_slice with the state as it is.
SetClim(s, value) ==
    /\ HasBudget
    /\ Spend
    /\ value # clim[s]
    /\ clim' = [clim EXCEPT ![s] = value]
    /\ thumbs_pending' = thumbs_pending
                           \cup {[s |-> s,
                                  data |-> upload_thumbnails(value, info[s], thumbnail_param[s])]}
    /\ slices_pending' = slices_pending \cup SliceRequests(s, state[s], value)
    /\ ev' = [act |-> "clim", s |-> s, pos |-> None, out |-> {<<s, "clim">>}]
    /\ UNCHANGED <<config, slider, view, timer, private_state, state, thumbs, overlay,
                   server_data, extra_traces, traces, burst, idle_ticks, committed, pure>>

\* The application writes the extra-traces store of s: update_figure runs.
SetExtraTraces(s, value) ==
    /\ HasBudget
    /\ Spend
    /\ value # extra_traces[s]
    /\ extra_traces' = [extra_traces EXCEPT ![s] = value]
    /\ figure_data' = [figure_data EXCEPT ![s] =
                         update_figure(img_traces[s], indicator_traces[s], value)]
    /\ ev' = [act |-> "extra", s |-> s, pos |-> None,
              out |-> {<<s, "extra-traces">>, <<s, "figure">>}]
    /\ UNCHANGED <<config, slider, view, timer, private_state, state, clim, thumbs,
                   overlay, server_data, img_traces, indicator_traces, pendings,
                   burst, idle_ticks, committed, pure>>

\* 50 ms pass.  A tick that is due comes first.
Advance ==
    /\ \A s \in slicers : timer[s].disabled \/ timer[s].due > 0
    /\ timer' = [s \in slicers |->
                   IF timer[s].disabled THEN timer[s]
                   ELSE [timer[s] EXCEPT !.due = @ - 1]]
    /\ private_state' = [s \in slicers |->
                           IF private_state[s].timeout = None THEN private_state[s]
                           ELSE [private_state[s] EXCEPT
                                    !.timeout = Some(Max(Now, @[1] - 1))]]
    /\ burst' = [s \in slicers |->
                   IF burst[s].tracked
                   THEN [burst[s] EXCEPT !.since =
                            Min(IF "view" \in observed THEN LayoutTimeout ELSE MaxSince,
                                @ + 1)]
                   ELSE burst[s]]
    /\ ev' = [act |-> "advance", s |-> 0, pos |-> None, out |-> {}]
    /\ UNCHANGED <<config, slider, view, state, stores, traces, pendings,
                   input_budget, idle_ticks, committed, pure>>

-----------------------------------------------------------------------------
(* The specifications.                                                     *)

\* A volume of 3 x 2 x 4 voxels (z, y, x).
Volume == [shape |-> <<3, 2, 4>>, spacing |-> <<2, 1, 1>>, origin |-> <<1, 0, 0>>]

\* The arguments of VolumeSlicer(app, volume, ...).
Args(axis, thumbnail, scene_id) ==
    [shape |-> Volume.shape, spacing |-> Volume.spacing, origin |-> Volume.origin,
     axis |-> axis, color |-> None, thumbnail |-> thumbnail, scene_id |-> scene_id,
     clim |-> 0]

\* The values of the thumbnail argument.
Thumbnails ==
    {<<"bool", 0>>, <<"bool", 1>>, <<"int", 0>>, <<"int", -1>>, <<"int", 1>>,
     <<"int", 3>>, <<"int", 4>>}

\* One slicer of every scene.
SceneOwners == {s \in slicers : \A t \in SameScene(s) : s <= t}

\* Two slicers of one volume and one scene, on axes 0 and 1, both without
\* thumbnails (no upload_requested_slice is registered), and a user who
\* gives MaxInputs inputs of any kind.
Init ==
    /\ InitWith(<<Args(0, <<"bool", 0>>, "vol0"), Args(1, <<"bool", 0>>, "vol0")>>,
                Some(MaxInputs), {"idle_ticks"})
    /\ arg = <<>>
    /\ res = <<>>

Next ==
    \/ \E s \in slicers : \E v \in 0..(info[s].size[3] - 1) : SliderMove(s, v)
    \/ \E s \in slicers : \E rk \in BOOLEAN : \E v \in views[s] : Relayout(s, rk, v)
    \/ \E s \in slicers : \E p \in ClickPoints(info[s]) : Click(s, p)
    \/ \E s \in SceneOwners : \E value \in Positions : SetPos(s, value)
    \/ \E s \in slicers : \E state_first \in BOOLEAN : Tick(s, state_first)
    \/ \E r \in thumbs_pending : ThumbsResponse(r)
    \/ Advance

Spec == Init /\ [][Next]_vars

\* One slicer without thumbnails and a user who drags, pans and zooms at
\* will: the rate limiter.
InitRate ==
    /\ InitWith(<<Args(0, <<"bool", 0>>, "vol0")>>, None, {"burst"})
    /\ arg = <<>>
    /\ res = <<>>

NextRate ==
    \/ \E s \in slicers : \E v \in 0..(info[s].size[3] - 1) : SliderMove(s, v)
    \/ \E s \in slicers : \E rk \in BOOLEAN : \E v \in views[s] : Relayout(s, rk, v)
    \/ \E s \in slicers : \E state_first \in BOOLEAN : Tick(s, state_first)
    \/ \E r \in thumbs_pending : ThumbsResponse(r)
    \/ Advance

SpecRate == InitRate /\ [][NextRate]_vars

\* One slicer without thumbnails, a user who drags and clicks and an
\* application that sets positions, at will.
InitPosition ==
    /\ InitWith(<<Args(0, <<"bool", 0>>, "vol0")>>, None, {})
    /\ arg = <<>>
    /\ res = <<>>

NextPosition ==
    \/ \E s \in slicers : \E v \in 0..(info[s].size[3] - 1) : SliderMove(s, v)
    \/ \E s \in slicers : \E p \in ClickPoints(info[s]) : Click(s, p)
    \/ \E s \in SceneOwners : \E value \in Positions : SetPos(s, value)
    \/ \E s \in slicers : \E state_first \in BOOLEAN : Tick(s, state_first)
    \/ \E r \in thumbs_pending : ThumbsResponse(r)
    \/ Advance

SpecPosition == InitPosition /\ [][NextPosition]_vars

\* One slicer on axis 1 with thumbnails and a user who drags, pans and
\* zooms at will: the two tiers of images.
InitCache ==
    /\ InitWith(<<Args(1, <<"int", 1>>, "vol0")>>, None, {"committed"})
    /\ arg = <<>>
    /\ res = <<>>

NextCache ==
    \/ \E s \in slicers : \E v \in 0..(info[s].size[3] - 1) : SliderMove(s, v)
    \/ \E s \in slicers : \E rk \in BOOLEAN : \E v \in views[s] : Relayout(s, rk, v)
    \/ \E s \in slicers : \E state_first \in BOOLEAN : Tick(s, state_first)
    \/ \E r \in thumbs_pending : ThumbsResponse(r)
    \/ \E r \in slices_pending : SliceResponse(r)
    \/ Advance

SpecCache == InitCache /\ [][NextCache]_vars

\* One slicer with any thumbnail argument and a user who drags the slider
\* MaxDrags times.
InitThumbnail ==
    /\ \E th \in Thumbnails :
          InitWith(<<Args(0, th, "vol0")>>, Some(MaxDrags), {})
    /\ arg = <<>>
    /\ res = <<>>

NextThumbnail ==
    \/ \E s \in slicers : \E v \in 0..(info[s].size[3] - 1) : SliderMove(s, v)
    \/ \E s \in slicers : \E state_first \in BOOLEAN : Tick(s, state_first)
    \/ \E r \in thumbs_pending : ThumbsResponse(r)
    \/ \E r \in slices_pending : SliceResponse(r)
    \/ Advance

SpecThumbnail == InitThumbnail /\ [][NextThumbnail]_vars

\* The edits (slider drags, zooms, extra traces) in a scene of configured
\* slicers.
MaxEdits == 1

\* Arguments with a color given: "" asks for no indicators.
ColoredArgs(axis, color, scene_id) ==
    [Args(axis, <<"bool", 0>>, scene_id) EXCEPT !.color = color]

\* Raw traces an application adds to a figure; the second has no line color.
ExtraTraces ==
    {<<>>,
     <<[type |-> "scatter", x |-> <<QInt(0), QInt(1)>>, y |-> <<QInt(0), QInt(1)>>,
        line |-> [color |-> "red", width |-> 2]],
       [type |-> "scatter", x |-> <<QInt(1), QInt(2)>>, y |-> <<QInt(0), QInt(0)>>,
        line |-> [color |-> "", width |-> 2]]>>}

\* Two slicers: the first on axis 0 with the default color or with "", the
\* second on axis 0 or 1, in the scene of the first or in another one.
InitScene ==
    /\ \E color \in {None, Some("")} : \E axis \in {0, 1} :
       \E scene_id \in {"vol0", "vol1"} :
          InitWith(<<ColoredArgs(0, color, "vol0"), ColoredArgs(axis, None, scene_id)>>,
                   Some(MaxEdits), {})
    /\ arg = <<>>
    /\ res = <<>>

NextScene ==
    \/ \E s \in slicers : \E v \in 0..(info[s].size[3] - 1) : SliderMove(s, v)
    \/ \E s \in slicers : \E value \in ExtraTraces : SetExtraTraces(s, value)
    \/ \E s \in slicers : \E v \in views[s] : Relayout(s, TRUE, v)
    \/ \E s \in slicers : \E state_first \in BOOLEAN : Tick(s, state_first)
    \/ \E r \in thumbs_pending : ThumbsResponse(r)
    \/ Advance

SpecScene == InitScene /\ [][NextScene]_vars

\* One slicer on axis 1, with or without thumbnails, whose contrast limits
\* the application changes and whose slider the user drags, MaxEdits edits
\* in all.
Clims == {0, 1}

InitContrast ==
    /\ \E th \in {<<"bool", 0>>, <<"int", 1>>} :
          InitWith(<<Args(1, th, "vol0")>>, Some(MaxEdits), {})
    /\ arg = <<>>
    /\ res = <<>>

NextContrast ==
    \/ \E s \in slicers : \E v \in 0..(info[s].size[3] - 1) : SliderMove(s, v)
    \/ \E s \in slicers : \E value \in Clims : SetClim(s, value)
    \/ \E s \in slicers : \E state_first \in BOOLEAN : Tick(s, state_first)
    \/ \E r \in thumbs_pending : ThumbsResponse(r)
    \/ \E r \in slices_pending : SliceResponse(r)
    \/ Advance

SpecContrast == InitContrast /\ [][NextContrast]_vars

\* update_image_traces as a function of the info of a slicer (an in-plane
\* size up to MaxTile, any thumbnail size up to the size, an offset and a
\* stepsize) and of whether the server's slice is the one of the index.
MaxTile == 3

Placements ==
    {[size |-> n, thumbnail_size |-> t, offset |-> o, stepsize |-> st]
     : n \in 1..MaxTile, t \in 1..MaxTile, o \in {-1, 2}, st \in 1..MaxTile}

\* The info of a slicer with two slices whose placement along x is px and
\* along y is py.
PlacedInfo(px, py) ==
    [axis |-> 0, size |-> <<px.size, py.size, 2>>,
     offset |-> <<px.offset, py.offset, 0>>,
     stepsize |-> <<px.stepsize, py.stepsize, 1>>,
     color |-> discrete_colors[1], infoid |-> 1,
     thumbnail_size |-> <<px.thumbnail_size, py.thumbnail_size>>]

\* The overlay store: empty, or with an image for the first slice alone.
PlacedOverlays == {<<>>, <<Some(Png(0, -1, <<MaxTile, MaxTile>>)), None>>}

\* The server's data: the slice of the index (a hit) or of the other index.
PlacedServer(a) ==
    [index |-> IF a.hit THEN a.index ELSE 1 - a.index,
     slice |-> Png(IF a.hit THEN a.index ELSE 1 - a.index, 0, a.info.size)]

\* The thumbnails store, loaded.
PlacedThumbnails(a) == [i \in 1..2 |-> Png(i - 1, 0, a.info.thumbnail_size)]

InitPlacement ==
    /\ InitWith(<<>>, None, {})
    /\ arg \in {Some([info |-> PlacedInfo(px, py), index |-> i, hit |-> h, overlays |-> ov])
                : px \in {p \in Placements : p.thumbnail_size <= p.size},
                  py \in {p \in Placements : p.thumbnail_size <= p.size /\ p.offset = 2},
                  i \in 0..1, h \in BOOLEAN,
                  ov \in PlacedOverlays}
    /\ res = <<>>

\* update_image_traces runs for the first time (no current traces).
PlaceImage ==
    /\ arg # None
    /\ res = None
    /\ res' = update_image_traces(arg[1].index, PlacedServer(arg[1]), arg[1].overlays,
                                  PlacedThumbnails(arg[1]), arg[1].info, <<>>)
    /\ UNCHANGED <<config, slider, view, timer, private_state, state, stores, traces,
                   pendings, input_budget, history, arg>>

NextPlacement == PlaceImage

SpecPlacement == InitPlacement /\ [][NextPlacement]_vars

\* One slicer on axis 1 without thumbnails, a user who drags, clicks, pans
\* and zooms and an application that sets positions, at will: the rate
\* limiter among all the events of a viewer.
InitLimiter ==
    /\ InitWith(<<Args(1, <<"bool", 0>>, "vol0")>>, None, {"quiet"})
    /\ arg = <<>>
    /\ res = <<>>

NextLimiter ==
    \/ \E s \in slicers : \E v \in 0..(info[s].size[3] - 1) : SliderMove(s, v)
    \/ \E s \in slicers : \E rk \in BOOLEAN : \E v \in views[s] : Relayout(s, rk, v)
    \/ \E s \in slicers : \E p \in ClickPoints(info[s]) : Click(s, p)
    \/ \E s \in SceneOwners : \E value \in Positions : SetPos(s, value)
    \/ \E s \in slicers : \E state_first \in BOOLEAN : Tick(s, state_first)
    \/ \E r \in thumbs_pending : ThumbsResponse(r)
    \/ Advance

SpecLimiter == InitLimiter /\ [][NextLimiter]_vars

\* One slicer whose user moves the slider and pans or zooms, the changes
\* of the view range being timed.
InitViewQuiet ==
    /\ InitWith(<<Args(1, <<"bool", 0>>, "vol0")>>, None, {"view"})
    /\ arg = <<>>
    /\ res = <<>>

NextViewQuiet ==
    \/ \E s \in slicers : \E v \in 0..(info[s].size[3] - 1) : SliderMove(s, v)
    \/ \E s \in slicers : \E rk \in BOOLEAN : \E v \in views[s] : Relayout(s, rk, v)
    \/ \E s \in slicers : \E state_first \in BOOLEAN : Tick(s, state_first)
    \/ \E r \in thumbs_pending : ThumbsResponse(r)
    \/ Advance

SpecViewQuiet == InitViewQuiet /\ [][NextViewQuiet]_vars

\* update_indicator_traces on any content of the state stores: three
\* slicers, the third possibly in a scene of its own, each store null or
\* holding a state of the slicer's axis or of an axis no slicer has.
UnexpectedAxes == {3}

StoredState(axis) ==
    [index |-> 0, index_changed |-> TRUE, xrange |-> <<QInt(0), QInt(4)>>,
     yrange |-> <<QInt(10), QInt(12)>>, zpos |-> QInt(20), axis |-> axis,
     color |-> "#1F77B4"]

InitPeers ==
    /\ \E axis \in 0..2 : \E scene_id \in {"vol0", "vol1"} :
          InitWith(<<Args(0, <<"bool", 0>>, "vol0"), Args(axis, <<"bool", 0>>, "vol0"),
                     Args(2, <<"bool", 0>>, scene_id)>>, None, {})
    /\ arg \in {Some(st) : st \in [slicers -> {None} \cup {Some(StoredState(a))
                                                            : a \in 0..2 \cup UnexpectedAxes}]}
    /\ \A s \in slicers :
          arg[1][s] # None => arg[1][s][1].axis \in {info[s].axis} \cup UnexpectedAxes
    /\ res = <<>>

\* The indicator traces of slicer t are recomputed from the stores in arg.
RecomputeIndicators(t) ==
    /\ arg # None
    /\ res = None
    /\ res' = Some([t |-> t,
                    out |-> update_indicator_traces(SceneStates(arg[1], t), info[t],
                                                    arg[1][t])])
    /\ UNCHANGED <<config, slider, view, timer, private_state, state, stores, traces,
                   pendings, input_budget, history, arg>>

NextPeers == \E t \in slicers : RecomputeIndicators(t)

SpecPeers == InitPeers /\ [][NextPeers]_vars

\* Two slicers with thumbnails, on the axes 0 and 1, in one scene or in
\* two, and a user who drags, pans and zooms MaxEdits times.
InitFollow ==
    /\ \E scene_id \in {"vol0", "vol1"} :
          InitWith(<<Args(0, <<"int", 1>>, "vol0"), Args(1, <<"int", 1>>, scene_id)>>,
                   Some(MaxEdits), {})
    /\ arg = <<>>
    /\ res = <<>>

NextFollow ==
    \/ \E s \in slicers : \E v \in 0..(info[s].size[3] - 1) : SliderMove(s, v)
    \/ \E s \in slicers : \E v \in views[s] : Relayout(s, TRUE, v)
    \/ \E s \in slicers : \E state_first \in BOOLEAN : Tick(s, state_first)
    \/ \E r \in thumbs_pending : ThumbsResponse(r)
    \/ \E r \in slices_pending : SliceResponse(r)
    \/ Advance

SpecFollow == InitFollow /\ [][NextFollow]_vars

\* One slicer with thumbnails, a user who drags, pans and zooms and an
\* application that sets the contrast limits, MaxChanges times in all.
MaxChanges == 2

InitRefresh ==
    /\ InitWith(<<Args(1, <<"int", 1>>, "vol0")>>, Some(MaxChanges), {})
    /\ arg = <<>>
    /\ res = <<>>

NextRefresh ==
    \/ \E s \in slicers : \E v \in 0..(info[s].size[3] - 1) : SliderMove(s, v)
    \/ \E s \in slicers : \E v \in views[s] : Relayout(s, TRUE, v)
    \/ \E s \in slicers : \E value \in Clims : SetClim(s, value)
    \/ \E s \in slicers : \E state_first \in BOOLEAN : Tick(s, state_first)
    \/ \E r \in thumbs_pending : ThumbsResponse(r)
    \/ \E r \in slices_pending : SliceResponse(r)
    \/ Advance

SpecRefresh == InitRefresh /\ [][NextRefresh]_vars

\* Three slicers on the three axes, the third in the scene of the others
\* or in one of its own, and a user who drags the sliders and clicks in the
\* images, MaxChanges times in all.
InitClick ==
    /\ \E scene_id \in {"vol0", "vol1"} :
          InitWith(<<Args(0, <<"bool", 0>>, "vol0"), Args(1, <<"bool", 0>>, "vol0"),
                     Args(2, <<"bool", 0>>, scene_id)>>, Some(MaxChanges), {})
    /\ arg = <<>>
    /\ res = <<>>

NextClick ==
    \/ \E s \in slicers : \E v \in 0..(info[s].size[3] - 1) : SliderMove(s, v)
    \/ \E s \in slicers : \E p \in ClickPoints(info[s]) : Click(s, p)
    \/ \E r \in thumbs_pending : ThumbsResponse(r)

SpecClick == InitClick /\ [][NextClick]_vars

\* One slicer and a user who drags, pans and zooms for as long as he likes,
\* in a browser whose clock advances and whose Interval ticks while it is
\* enabled.
InitPending ==
    /\ InitWith(<<Args(1, <<"bool", 0>>, "vol0")>>, None, {})
    /\ arg = <<>>
    /\ res = <<>>

NextPending ==
    \/ \E s \in slicers : \E v \in 0..(info[s].size[3] - 1) : SliderMove(s, v)
    \/ \E s \in slicers : \E rk \in BOOLEAN : \E v \in views[s] : Relayout(s, rk, v)
    \/ \E s \in slicers : \E state_first \in BOOLEAN : Tick(s, state_first)
    \/ \E r \in thumbs_pending : ThumbsResponse(r)
    \/ Advance

\* The step is a tick of the timer of s, as the history shows it: s has a
\* tick due (the guard of Tick) and the event recorded is its tick.
TickTaken(s) ==
    /\ ~timer[s].disabled
    /\ timer[s].due = 0
    /\ \E o \in SUBSET {<<s, "timer">>, <<s, "state">>, <<s, "figure">>,
                         <<s, "indicator-traces">>, <<s, "request">>} :
          ev' = [act |-> "tick", s |-> s, pos |-> None, out |-> o]

\* The clock of the browser advances, and an Interval that is enabled and
\* due fires.
SpecPending ==
    /\ InitPending
    /\ [][NextPending]_vars
    /\ WF_vars(Advance)
    /\ WF_ev(TickTaken(1))

\* The step stores a response of upload_requested_slice for s, as the
\* history shows it: a response is pending and the event recorded is its
\* arrival.
SliceTaken(s) ==
    /\ \E r \in slices_pending : r.s = s
    /\ \E o \in SUBSET {<<s, "server-data">>, <<s, "img-traces">>, <<s, "figure">>} :
          ev' = [act |-> "slice", s |-> s, pos |-> None, out |-> o]

\* One slicer with thumbnails and a user who drags the slider MaxChanges
\* times and then stops, in a browser whose clock advances and whose
\* Interval ticks while it is enabled, with a server that answers every
\* request, in any order.
InitResolve ==
    /\ InitWith(<<Args(1, <<"int", 1>>, "vol0")>>, Some(MaxChanges), {})
    /\ arg = <<>>
    /\ res = <<>>

NextResolve ==
    \/ \E s \in slicers : \E v \in 0..(info[s].size[3] - 1) : SliderMove(s, v)
    \/ \E s \in slicers : \E state_first \in BOOLEAN : Tick(s, state_first)
    \/ \E r \in thumbs_pending : ThumbsResponse(r)
    \/ \E r \in slices_pending : SliceResponse(r)
    \/ Advance

SpecResolve ==
    /\ InitResolve
    /\ [][NextResolve]_vars
    /\ WF_vars(Advance)
    /\ WF_ev(TickTaken(1))
    /\ WF_ev(SliceTaken(1))

-----------------------------------------------------------------------------
(* An application that gets and sets the position, as
   examples/set_slicer_position_simple.py does: a callback of the
   application has the state store of the slicer as its input and hands the
   committed index to a second callback, which writes the position of that
   index into a setpos store of the scene.  Both are server callbacks: the
   index travels to the server and back while the browser goes on, and res
   holds the indices that are under way.                                    *)

\* The timer of s ticks; a state it commits starts the callbacks of the
\* application with the index committed.
AppTick(s, state_first) ==
    /\ ~timer[s].disabled
    /\ timer[s].due = 0
    /\ TickedWith(s, Min(MaxIntervals, timer[s].n_intervals + 1),
                  TickCallbacks(private_state[s],
                                Min(MaxIntervals, timer[s].n_intervals + 1),
                                slider[s], info[s], view[s], state_first))
    /\ arg' = arg
    /\ res' = IF <<s, "state">> \in ev'.out
              THEN res \cup {state'[s][1].index}
              ELSE res

\* The position the application writes for the index i of s: the component
\* of the slicing dimension of s, the others None.
AppPosition(s, i) ==
    Some([k \in 1..3 |->
            IF k = (2 - info[s].axis) + 1
            THEN Some(info[s].offset[3] + i * info[s].stepsize[3])
            ELSE None])

\* The callbacks of the application return for the index i: the setpos
\* store of the scene of s gets the position, and update_slider_value runs
\* in every slicer of the scene.
AppFeedback(s, i) ==
    /\ i \in res
    /\ WriteSliders("setpos", s, AppPosition(s, i),
                    Written([t \in SameScene(s) |->
                               update_slider_value(<<AppPosition(s, i)>>,
                                                   slider[t], info[t])]))
    /\ UNCHANGED <<input_budget, arg>>
    /\ res' = res \ {i}

\* The step hands an index that was under way to the setpos store, as res
\* shows it.
FeedbackTaken ==
    /\ res # {}
    /\ \E i \in res : res' = res \ {i}

InitLoop ==
    /\ InitWith(<<Args(0, <<"bool", 0>>, "vol0")>>, Some(MaxChanges), {})
    /\ arg = <<>>
    /\ res = {}

NextLoop ==
    \/ \E s \in slicers : \E v \in 0..(info[s].size[3] - 1) : SliderMove(s, v)
    \/ \E s \in slicers : \E state_first \in BOOLEAN : AppTick(s, state_first)
    \/ \E s \in slicers : \E i \in res : AppFeedback(s, i)
    \/ \E r \in thumbs_pending : ThumbsResponse(r)
    \/ Advance

\* The clock advances, a tick that is due is taken and an index under way
\* arrives.
SpecLoop ==
    /\ InitLoop
    /\ [][NextLoop]_vars
    /\ WF_vars(Advance)
    /\ WF_ev(TickTaken(1))
    /\ WF_res(FeedbackTaken)

-----------------------------------------------------------------------------
(* The image traces under every input of update_image_traces: the slider,
   the server's data, the thumbnails, and the overlay store, which a
   callback of the application writes with slicer.create_overlay_data.    *)

\* What an application can write to the overlay store of s: nothing, a
\* reset, or a coloured mask on any of the slices.
OverlayData(s) ==
    {<<>>} \cup
    {[i \in 1..info[s].size[3] |->
        IF i - 1 \in on
        THEN Some(Png(i - 1, -1, <<info[s].size[1], info[s].size[2]>>))
        ELSE None]
     : on \in SUBSET (0..(info[s].size[3] - 1))}

\* The application writes the overlay store of s: update_image_traces
\* runs, and the figure follows.
SetOverlay(s, data) ==
    /\ HasBudget
    /\ Spend
    /\ data # overlay[s]
    /\ overlay' = [overlay EXCEPT ![s] = data]
    /\ LET img == update_image_traces(slider[s], server_data[s], data, thumbs[s],
                                      info[s], img_traces[s])
       IN  /\ img_traces' = [img_traces EXCEPT ![s] = IF img = None THEN @ ELSE img[1]]
           /\ figure_data' = [figure_data EXCEPT ![s] =
                                IF img = None THEN @
                                ELSE update_figure(img[1], indicator_traces[s],
                                                   extra_traces[s])]
           /\ ev' = [act |-> "overlay", s |-> s, pos |-> None,
                     out |-> {<<s, "overlay">>} \cup ImgOutputs(s, img)]
    /\ UNCHANGED <<config, slider, view, timer, private_state, state, clim, thumbs,
                   server_data, extra_traces, indicator_traces, pendings, burst,
                   idle_ticks, committed, pure>>

InitSuppress ==
    /\ \E th \in {<<"bool", 0>>, <<"int", 1>>} :
          InitWith(<<Args(1, th, "vol0")>>, Some(MaxChanges), {})
    /\ arg = <<>>
    /\ res = <<>>

NextSuppress ==
    \/ \E s \in slicers : \E v \in 0..(info[s].size[3] - 1) : SliderMove(s, v)
    \/ \E s \in slicers : \E data \in OverlayData(s) : SetOverlay(s, data)
    \/ \E s \in slicers : \E value \in Clims : SetClim(s, value)
    \/ \E s \in slicers : \E state_first \in BOOLEAN : Tick(s, state_first)
    \/ \E r \in thumbs_pending : ThumbsResponse(r)
    \/ \E r \in slices_pending : SliceResponse(r)
    \/ Advance

SpecSuppress == InitSuppress /\ [][NextSuppress]_vars

\* update_rate_limiting_info as a function: one invocation with any
\* deadline pending or none, any non-empty set of triggers, a relayoutData
\* with or without range keys, and any count of ticks.
Triggers == {"slider", "graph", "timer"}

InitDeadline ==
    /\ InitWith(<<>>, None, {})
    /\ arg \in {Some([private |-> [timeout |-> t, last_index |-> None, infoid |-> None],
                      triggered |-> tr, range_keys |-> rk, n_intervals |-> n])
                : t \in {None} \cup {Some(d) : d \in Now..(Now + LayoutTimeout)},
                  tr \in (SUBSET Triggers) \ {{}},
                  rk \in BOOLEAN,
                  n \in 0..MaxIntervals}
    /\ res = <<>>

SetDeadline ==
    /\ arg # None
    /\ res = None
    /\ res' = Some(update_rate_limiting_info(arg[1].private, arg[1].triggered,
                                             arg[1].range_keys, arg[1].n_intervals))
    /\ UNCHANGED <<config, slider, view, timer, private_state, state, stores, traces,
                   pendings, input_budget, history, arg>>

NextDeadline == SetDeadline

SpecDeadline == InitDeadline /\ [][NextDeadline]_vars

\* update_indicator_traces as a function: the slicer on arg.axis gets its
\* own state and the state arg.peer of another slicer of the scene.
PeerStates(axis) ==
    {[index |-> 0, index_changed |-> TRUE, xrange |-> xr, yrange |-> yr,
      zpos |-> QInt(z), axis |-> axis, color |-> discrete_colors[axis + 1]]
     : xr \in {<<QInt(0), QInt(4)>>, <<QInt(1), QInt(3)>>},
       yr \in {<<QInt(10), QInt(12)>>, <<QInt(11), QInt(15)>>},
       z \in {20, 21, 22}}

\* The state the slicer with info inf commits first, at index 1.
OwnState(inf) ==
    update_state([timeout |-> Some(Now), last_index |-> None, infoid |-> None],
                 SettleTicks, 1, inf, AutoRange(inf)).out

IndicatorTraces(inf, peer) ==
    update_indicator_traces(<<OwnState(inf), Some(peer)>>, inf, OwnState(inf))

InitIndicator ==
    /\ InitWith(<<>>, None, {})
    /\ arg \in {Some([axis |-> a, peer |-> st])
                : a \in 0..2, st \in UNION {PeerStates(p) : p \in 0..2}}
    /\ res = <<>>

Indicate ==
    /\ arg # None
    /\ res = None
    /\ res' = Some(IndicatorTraces(SliceInfo(Args(arg[1].axis, <<"bool", 0>>, "vol0"), 1),
                                   arg[1].peer))
    /\ UNCHANGED <<config, slider, view, timer, private_state, state, stores, traces,
                   pendings, input_budget, history, arg>>

NextIndicator == Indicate

SpecIndicator == InitIndicator /\ [][NextIndicator]_vars

\* get_thumbnail_size as a function of an image size (w, h) and a target
\* size, each from 1 to MaxSide.
MaxSide == 10

InitThumbSize ==
    /\ InitWith(<<>>, None, {})
    /\ arg \in {Some([size |-> <<w, h>>, ref_size |-> t])
                : w \in 1..MaxSide, h \in 1..MaxSide, t \in 1..MaxSide}
    /\ res = <<>>

ThumbSize ==
    /\ arg # None
    /\ res = None
    /\ res' = Some(get_thumbnail_size(arg[1].size, arg[1].ref_size))
    /\ UNCHANGED <<config, slider, view, timer, private_state, state, stores, traces,
                   pendings, input_budget, history, arg>>

NextThumbSize == ThumbSize

SpecThumbSize == InitThumbSize /\ [][NextThumbSize]_vars

\* shape3d_to_size2d as a function of a shape with entries from 1 to MaxDim
\* and an axis from -1 to 3, and the slice info of a viewer of a volume of
\* that shape.
MaxDim == 3

Origins == {<<0, 1, 2>>, <<5, 5, 3>>}

Spacings == {<<1, 2, 3>>, <<2, 1, 1>>}

InitAxis ==
    /\ InitWith(<<>>, None, {})
    /\ arg \in {Some([shape |-> <<z, y, x>>, origin |-> o, spacing |-> sp, axis |-> a])
                : z \in 1..MaxDim, y \in 1..MaxDim, x \in 1..MaxDim,
                  o \in Origins, sp \in Spacings, a \in -1..3}
    /\ res = <<>>

\* The call of the function, and VolumeSlicer(app, volume, spacing=...,
\* origin=..., axis=...), which raises unless the axis is 0, 1 or 2.
ShapeToSize ==
    /\ arg # None
    /\ res = None
    /\ res' = Some([size2d |-> shape3d_to_size2d_call(arg[1].shape, arg[1].axis),
                    info |-> IF arg[1].axis \in 0..2
                             THEN Some(SliceInfo([Args(arg[1].axis, <<"bool", 0>>, "vol0")
                                                    EXCEPT !.shape = arg[1].shape,
                                                           !.origin = arg[1].origin,
                                                           !.spacing = arg[1].spacing], 1))
                             ELSE None])
    /\ UNCHANGED <<config, slider, view, timer, private_state, state, stores, traces,
                   pendings, input_budget, history, arg>>

NextAxis == ShapeToSize

SpecAxis == InitAxis /\ [][NextAxis]_vars

\* _slice as a function of the shape of the volume, the axis of the slicer
\* and an index from -(MaxDim + 1) to MaxDim + 1.
InitSlice ==
    /\ InitWith(<<>>, None, {})
    /\ arg \in {Some([shape |-> <<z, y, x>>, axis |-> a, index |-> i])
                : z \in 1..MaxDim, y \in 1..MaxDim, x \in 1..MaxDim,
                  a \in 0..2, i \in -(MaxDim + 1)..(MaxDim + 1)}
    /\ res = <<>>

Sample ==
    /\ arg # None
    /\ res = None
    /\ res' = Some(slice(arg[1].shape, arg[1].axis, arg[1].index))
    /\ UNCHANGED <<config, slider, view, timer, private_state, state, stores, traces,
                   pendings, input_budget, history, arg>>

NextSlice == Sample

SpecSlice == InitSlice /\ [][NextSlice]_vars

\* The contrast limits of _slice as a function of a plane of two pixels with
\* values up to MaxPixel and of limits up to MaxPixel, given as Python
\* numbers or as numpy scalars.
MaxPixel == 2

InitClim ==
    /\ InitWith(<<>>, None, {})
    /\ arg \in {Some([px |-> <<p, q>>, clim |-> [kind |-> k, a |-> a, b |-> b]])
                : p \in 0..MaxPixel, q \in 0..MaxPixel, k \in {"python", "numpy"},
                  a \in 0..MaxPixel, b \in 0..MaxPixel}
    /\ res = <<>>

ApplyClim ==
    /\ arg # None
    /\ res = None
    /\ \E outcome \in slice_clim(arg[1].px, arg[1].clim) : res' = Some(outcome)
    /\ UNCHANGED <<config, slider, view, timer, private_state, state, stores, traces,
                   pendings, input_budget, history, arg>>

NextClim == ApplyClim

SpecClim == InitClim /\ [][NextClim]_vars

\* create_overlay_data as a function of a mask with values up to MaxMask,
\* or None, for a slicer of a volume of one of two shapes on any axis.
MaxMask == 2

MaskShapes == {<<2, 1, 2>>, <<1, 2, 2>>}

Masks ==
    {None} \cup UNION {{Some([shape |-> sh, data |-> d]) : d \in [Voxels(sh) -> 0..MaxMask]}
                       : sh \in MaskShapes}

InitOverlay ==
    /\ InitWith(<<>>, None, {})
    /\ arg \in {Some([mask |-> m, shape |-> sh, axis |-> a])
                : m \in Masks, sh \in MaskShapes, a \in 0..2}
    /\ res = <<>>

CreateOverlay ==
    /\ arg # None
    /\ res = None
    /\ res' = Some(create_overlay_data(arg[1].mask, arg[1].shape, arg[1].axis))
    /\ UNCHANGED <<config, slider, view, timer, private_state, state, stores, traces,
                   pendings, input_budget, history, arg>>

NextOverlay == CreateOverlay

SpecOverlay == InitOverlay /\ [][NextOverlay]_vars

\* A process that calls VolumeSlicer(...) MaxCalls times, with valid and
\* invalid arguments, for two apps and two volumes of equal shape.
MaxCalls == 3

DashApps == {[type |-> "Dash", obj |-> "app1"], [type |-> "Dash", obj |-> "app2"]}

NotAnApp == [type |-> "str", obj |-> "not a dash app"]

\* Two 3D arrays; a slicer keeps its volume referenced (self._volume), so
\* that id(volume), here obj, names one object for good.
Volumes3d ==
    {[type |-> "ndarray", ndim |-> 3, shape |-> Volume.shape, obj |-> o] : o \in {"a", "b"}}

\* [3, 4, 5] and vol[0]
NotAVolume ==
    {[type |-> "list", ndim |-> 1, shape |-> <<3>>, obj |-> "l"],
     [type |-> "ndarray", ndim |-> 2, shape |-> <<2, 4>>, obj |-> "a0"]}

NoClim == [type |-> "NoneType", len |-> 0]

\* clim=10 and clim=(10, 12, 14)
NotAClim == {[type |-> "int", len |-> 0], [type |-> "tuple", len |-> 3]}

NotAnAxis == {<<"int", 4>>, <<"int", 3>>, <<"int", -1>>, <<"float", 1>>}

\* thumbnail=20.2 and thumbnail=None
NotAThumbnail == {<<"float", 20>>, <<"NoneType", 0>>}

NoSceneId == [type |-> "NoneType", val |-> ""]

SceneIds == {NoSceneId, [type |-> "str", val |-> "vol0"], [type |-> "str", val |-> "mine"]}

NotASceneId == [type |-> "int", val |-> "20"]

Call(app, volume, axis, limits, thumbnail, scene_id) ==
    [app |-> app, volume |-> volume, axis |-> axis, clim |-> limits,
     thumbnail |-> thumbnail, scene_id |-> scene_id]

ValidCalls ==
    {Call(app, volume, axis, NoClim, <<"bool", 1>>, scene_id)
     : app \in DashApps, volume \in Volumes3d, axis \in {<<"int", 0>>, <<"int", 1>>},
       scene_id \in SceneIds}

BaseCall ==
    Call([type |-> "Dash", obj |-> "app1"],
         [type |-> "ndarray", ndim |-> 3, shape |-> Volume.shape, obj |-> "a"],
         <<"int", 2>>, [type |-> "tuple", len |-> 2], <<"int", 1>>, NoSceneId)

\* The number of arguments of c that differ from the base call's.
Replaced(c) ==
    (IF c.app = BaseCall.app THEN 0 ELSE 1)
    + (IF c.volume = BaseCall.volume THEN 0 ELSE 1)
    + (IF c.axis = BaseCall.axis THEN 0 ELSE 1)
    + (IF c.clim = BaseCall.clim THEN 0 ELSE 1)
    + (IF c.thumbnail = BaseCall.thumbnail THEN 0 ELSE 1)
    + (IF c.scene_id = BaseCall.scene_id THEN 0 ELSE 1)

\* The base call with up to MaxInvalid of its arguments replaced by invalid
\* values.
MaxInvalid == 2

MixedCalls ==
    {c \in {Call(app, volume, axis, limits, thumbnail, scene_id)
            : app \in {BaseCall.app, NotAnApp},
              volume \in {BaseCall.volume} \cup NotAVolume,
              axis \in {BaseCall.axis} \cup NotAnAxis,
              limits \in {BaseCall.clim} \cup NotAClim,
              thumbnail \in {BaseCall.thumbnail} \cup NotAThumbnail,
              scene_id \in {BaseCall.scene_id, NotASceneId}}
     : Replaced(c) <= MaxInvalid}

Calls == ValidCalls \cup MixedCalls

InitConstruct ==
    /\ InitWith(<<>>, None, {})
    /\ arg = <<>>
    /\ res = Some([counter |-> 0, assigned |-> {}, objects |-> <<>>, callbacks |-> {},
                   raised |-> ""])

\* The n-th call of the constructor, with the arguments c.
Construct(c) ==
    /\ IF arg = None THEN TRUE ELSE arg[1].n < MaxCalls
    /\ arg' = Some([call |-> c, n |-> IF arg = None THEN 1 ELSE arg[1].n + 1])
    /\ res' = Some(VolumeSlicerInit(res[1], c))
    /\ UNCHANGED <<config, slider, view, timer, private_state, state, stores, traces,
                   pendings, input_budget, history>>

NextConstruct == \E c \in Calls : Construct(c)

SpecConstruct == InitConstruct /\ [][NextConstruct]_vars

-----------------------------------------------------------------------------
(* The properties.                                                         *)

\* C1 (debounce coalescing): for a slicer whose plot has settled, slider
\* changes that follow one another by less than SliderTimeout (200 ms), with
\* no further input, lead to exactly one new committed state: none while
\* less than SliderTimeout has passed since the last change, one from the
\* first tick at or after that deadline on, and its index is the slider's
\* last value.
DebounceCoalescing ==
    \A s \in slicers :
        burst[s].tracked =>
            /\ burst[s].commits <= 1
            /\ burst[s].since < SliderTimeout => burst[s].commits = 0
            /\ (ev.act = "tick" /\ ev.s = s /\ burst[s].since >= SliderTimeout)
                  => burst[s].commits = 1
            /\ burst[s].since >= MaxSince => burst[s].commits = 1
            /\ burst[s].commits = 1 =>
                  IF state[s] = None THEN FALSE ELSE state[s][1].index = slider[s]

\* A burst of several slider changes was committed, once, and is over.
DebounceCoalescingWitness ==
    \E s \in slicers :
        /\ burst[s].tracked
        /\ burst[s].many
        /\ burst[s].commits = 1
        /\ burst[s].since >= MaxSince

\* C2 (last value wins): whenever a state is committed, its index is the
\* value the slider has at that tick, whichever deadline led to the commit.
LastValueWins ==
    \A s \in slicers :
        <<s, "state">> \in ev.out =>
            IF state[s] = None THEN FALSE ELSE state[s][1].index = slider[s]

\* A tick commits the state of a burst whose deadline was set by an earlier
\* slider value and moved by later ones.
LastValueWinsWitness ==
    \E s \in slicers :
        /\ ev.act = "tick"
        /\ <<s, "state">> \in ev.out
        /\ burst[s].many
        /\ state[s][1].index_changed

InputEvents == {"slider", "relayout", "click", "setpos"}

\* C3 (no feedback loop): in a scene of two slicers, a timer is enabled by
\* an input only and is disabled again after at most SettleTicks ticks that
\* follow the last input; the state and indicator stores are written by
\* ticks of a running timer only, the image traces by inputs and by the
\* server's responses only, and the figure only together with one of them.
NoFeedbackLoop ==
    [][/\ \A s \in slicers : idle_ticks'[s] <= SettleTicks
       /\ \A s \in slicers :
             (timer[s].disabled /\ ~timer'[s].disabled) => ev'.act \in InputEvents
       /\ ev'.act = "tick" => ~timer[ev'.s].disabled
       /\ \A o \in ev'.out :
             /\ o[2] \in {"state", "indicator-traces"} => ev'.act = "tick"
             /\ o[2] = "img-traces" => ev'.act \in InputEvents \cup {"thumbs"}
             /\ o[2] = "figure" =>
                   \/ <<o[1], "img-traces">> \in ev'.out
                   \/ <<o[1], "indicator-traces">> \in ev'.out]_vars

\* The user's input moved the second slicer; both slicers committed, drew
\* their indicators and stopped their timers.
NoFeedbackLoopWitness ==
    /\ input_budget = Some(0)
    /\ \A s \in slicers :
          /\ timer[s].disabled
          /\ state[s] # None
          /\ indicator_traces[s] # <<>>
    /\ state[2][1].index = 0

\* C4 (set position): a slicer whose component of a published position is a
\* number ends with its slider at the clamped index, and its slider is
\* written exactly if that index differs from the slider's value.
SetPositionWritesOnDifference ==
    [][(ev'.act \in {"setpos", "click"} /\ ev'.pos # None) =>
         \A t \in SameScene(ev'.s) :
            ev'.pos[1][3 - info[t].axis] # None =>
               LET index == Max(0, Min(info[t].size[3] - 1,
                                       SetposIndex(ev'.pos[1][3 - info[t].axis][1],
                                                   info[t])))
               IN  /\ slider'[t] = index
                   /\ (<<t, "slider">> \in ev'.out) <=> (index # slider[t])]_vars

\* C5 (selective set position): a published position whose component for a
\* slicer is None, and a null position, leave the slicer's slider, deadline,
\* timer and state as they are; a slicer whose component is a number ends
\* at the clamped index.
SelectiveSetPosition ==
    [][ev'.act = "setpos" =>
         \A t \in SameScene(ev'.s) :
            IF (IF ev'.pos = None THEN TRUE ELSE ev'.pos[1][3 - info[t].axis] = None)
            THEN /\ slider'[t] = slider[t]
                 /\ private_state'[t] = private_state[t]
                 /\ timer'[t] = timer[t]
                 /\ state'[t] = state[t]
                 /\ <<t, "slider">> \notin ev'.out
            ELSE slider'[t] = Max(0, Min(info[t].size[3] - 1,
                                         SetposIndex(ev'.pos[1][3 - info[t].axis][1],
                                                     info[t])))]_vars

\* A position with a number for the second slicer only moved that slicer.
SelectiveSetPositionWitness ==
    /\ ev.act = "setpos"
    /\ ev.pos = Some(<<None, Some(0), None>>)
    /\ <<2, "slider">> \in ev.out
    /\ <<1, "slider">> \notin ev.out
    /\ slider[2] = 0
    /\ slider[1] = ctor[1].shape[1] \div 2

\* C6 (raw index range): the slider starts at nslices // 2 and stays within
\* 0 .. nslices - 1 under slider moves, clicks and published positions.
RawIndexInRange ==
    \A s \in slicers :
        /\ slider[s] \in 0..(ctor[s].shape[ctor[s].axis + 1] - 1)
        /\ ev.act = "init" => slider[s] = ctor[s].shape[ctor[s].axis + 1] \div 2

\* A position far below the volume put the slider on its first slice.
RawIndexInRangeWitness ==
    /\ ev.act = "setpos"
    /\ ev.pos = Some(<<Some(0), Some(9), Some(-7)>>)
    /\ <<1, "slider">> \in ev.out
    /\ slider[1] = 0

\* C7 (full-resolution request gating): a slice is requested only by a tick
\* that commits a state with index_changed, and for that state's index; a
\* commit without index_changed and a null state request nothing.  Hence
\* the index of server_data and of every response on its way is -1 or an
\* index committed before.
RequestGating ==
    \A s \in slicers :
        /\ server_data[s].index = -1 \/ server_data[s].index \in committed[s]
        /\ \A r \in slices_pending : r.s = s => r.data.index \in committed[s]
        /\ <<s, "request">> \in ev.out =>
              /\ <<s, "state">> \in ev.out
              /\ state[s][1].index_changed
              /\ \E r \in slices_pending : r.s = s /\ r.data.index = state[s][1].index
        /\ (<<s, "state">> \in ev.out /\ ~state[s][1].index_changed) =>
              <<s, "request">> \notin ev.out
        /\ <<s, "server-data">> \in ev.out =>
              ev.act = "slice" /\ state[s] # None
        /\ state[s] = None =>
              /\ upload_requested_slice(state[s], clim[s], info[s]) = None
              /\ server_data[s].index = -1
              /\ \A r \in slices_pending : r.s # s

\* A commit after a pan or zoom alone: it requests nothing, and server_data
\* keeps the slice of the index committed before.
RequestGatingWitness ==
    \E s \in slicers :
        /\ ev.act = "tick"
        /\ <<s, "state">> \in ev.out
        /\ ~state[s][1].index_changed
        /\ server_data[s].index = state[s][1].index
        /\ slices_pending = {}

\* The thumbnail argument disables the low-resolution tier.
TierDisabled(a) ==
    \/ a.thumbnail = <<"bool", 0>>
    \/ /\ a.thumbnail[1] = "int"
       /\ \/ a.thumbnail[2] <= 0
          \/ a.thumbnail[2] >= Max(a.shape[1], Max(a.shape[2], a.shape[3]))

\* C8 (thumbnail tier disabled): the server-data callback is registered
\* exactly if the thumbnail argument is not False, 0, negative or at least
\* the largest dimension of the volume.  Without it server_data keeps index
\* -1 and, once the thumbnails are loaded, the slice trace shows
\* thumbnails[index], of full resolution, placed at offset with stepsize.
ThumbnailTier ==
    \A s \in slicers :
        /\ TierDisabled(ctor[s]) <=> "server-data" \notin callback_map[s]
        /\ TierDisabled(ctor[s]) =>
              /\ server_data[s].index = -1
              /\ slices_pending = {}
              /\ thumbs[s] # <<>> =>
                    /\ img_traces[s][1].source = thumbs[s][slider[s] + 1]
                    /\ img_traces[s][1].source.tag = "png"
                    /\ img_traces[s][1].source.w = info[s].size[1]
                    /\ img_traces[s][1].source.h = info[s].size[2]
                    /\ img_traces[s][1].x0 = QInt(info[s].offset[1])
                    /\ img_traces[s][1].y0 = QInt(info[s].offset[2])
                    /\ img_traces[s][1].dx = QInt(info[s].stepsize[1])
                    /\ img_traces[s][1].dy = QInt(info[s].stepsize[2])

\* A slicer whose thumbnail size is the largest dimension of the volume
\* committed another index than the initial one, with its images loaded.
ThumbnailTierWitness ==
    \E s \in slicers :
        /\ ctor[s].thumbnail = <<"int", 4>>
        /\ thumbs[s] # <<>>
        /\ state[s] # None
        /\ state[s][1].index # ctor[s].shape[ctor[s].axis + 1] \div 2
        /\ slider[s] = state[s][1].index

\* C9 (stale fetch response): a response of upload_requested_slice for
\* another index than the slider's is stored in server_data and leaves the
\* image traces and the figure as they are.
StaleResponseInvisible ==
    (ev.act = "slice" /\ server_data[ev.s].index # slider[ev.s]) =>
        /\ <<ev.s, "server-data">> \in ev.out
        /\ <<ev.s, "img-traces">> \notin ev.out
        /\ <<ev.s, "figure">> \notin ev.out

\* C10 (indicator geometry lookup): with the local frames that
\* shape3d_to_size2d gives, the line for a peer on another axis lies at the
\* peer's zpos on the local axis of the peer's slicing dimension and spans
\* the peer's range along the dimension both planes share; a peer on the
\* same axis gets no line.
IndicatorGeometry ==
    res # None =>
        LET a == arg[1].axis
            st == arg[1].peer
            own == shape3d_to_size2d(<<0, 1, 2>>, a)
            peer == shape3d_to_size2d(<<0, 1, 2>>, st.axis)
            shared == CHOOSE d \in 0..2 : d \notin {a, st.axis}
            range == IF peer[1] = shared THEN st.xrange ELSE st.yrange
            zpos == <<st.zpos, st.zpos>>
            lines == res[1][1]
        IN  IF a = st.axis
            THEN lines = <<>>
            ELSE /\ Len(lines) = 2
                 /\ lines[1].x = (IF own[1] = st.axis THEN zpos ELSE range)
                 /\ lines[1].y = (IF own[2] = st.axis THEN zpos ELSE range)
                 /\ lines[1].x[1] = lines[1].x[2] \/ lines[1].y[1] = lines[1].y[2]

\* The slicer on axis 0 drew the line of a peer on axis 2.
IndicatorGeometryWitness ==
    /\ res # None
    /\ arg[1].axis = 0
    /\ arg[1].peer.axis = 2
    /\ Len(res[1][1]) = 2
    /\ res[1][1][1].x = <<arg[1].peer.zpos, arg[1].peer.zpos>>

\* The lines of width 1 among the indicator traces: those of the peers.
PeerTraces(ind) == SelectSeq(ind, LAMBDA tr : tr.line.width = 1)

\* The line the slicer on axis 1 draws for the state st of the slicer on
\* axis 0: along its x extent, at the y of st's position.
LineOfFirst(tr, st, inf) ==
    /\ tr.x = st.xrange
    /\ tr.y = <<QInt(inf.offset[3] + st.index * inf.stepsize[3]),
                QInt(inf.offset[3] + st.index * inf.stepsize[3])>>

\* C11 as stated: after the slicer on axis 0 committed index i, the
\* indicator traces of the slicer on axis 1 hold exactly one peer line, at
\* zpos = offset + i * stepsize of the first.
PeerLineAfterCommit ==
    (ev.act = "tick" /\ <<1, "state">> \in ev.out) =>
        /\ Len(PeerTraces(indicator_traces[2])) = 1
        /\ LineOfFirst(PeerTraces(indicator_traces[2])[1], state[1][1], info[1])

\* C11, amended: the same, provided the slicer on axis 1 has a committed
\* state of its own; as long as it has none its indicator traces are not
\* written.
PeerLineAfterCommitOwnState ==
    /\ (ev.act = "tick" /\ <<1, "state">> \in ev.out /\ state[2] # None) =>
          /\ <<2, "indicator-traces">> \in ev.out
          /\ Len(PeerTraces(indicator_traces[2])) = 1
          /\ LineOfFirst(PeerTraces(indicator_traces[2])[1], state[1][1], info[1])
    /\ state[2] = None => indicator_traces[2] = <<>>

\* The first slicer committed another index than the initial one, and the
\* second, which has a state, drew its line.
PeerLineAfterCommitWitness ==
    /\ ev.act = "tick"
    /\ <<1, "state">> \in ev.out
    /\ state[2] # None
    /\ state[1][1].index = 2
    /\ Len(PeerTraces(indicator_traces[2])) = 1

\* The traces of width 4 among the indicator traces: the slicer's own frame.
SelfFrames(ind) == SelectSeq(ind, LAMBDA tr : tr.line.width = 4)

\* C12 (self-indicator): the indicator traces of a slicer hold its corner
\* frame, once and as their last trace, exactly if the slicer has a
\* committed state, its color is not "" and the traces hold a peer's line; a
\* slicer alone in its scene or with peers on its own axis only has none.
SelfIndicatorRule ==
    \A s \in slicers :
        /\ IF state[s] # None /\ info[s].color # ""
              /\ PeerTraces(indicator_traces[s]) # <<>>
           THEN /\ Len(SelfFrames(indicator_traces[s])) = 1
                /\ indicator_traces[s][Len(indicator_traces[s])]
                      = SelfIndicator(info[s], state[s][1])
           ELSE SelfFrames(indicator_traces[s]) = <<>>
        /\ (\A t \in SameScene(s) : ctor[t].axis = ctor[s].axis) =>
              SelfFrames(indicator_traces[s]) = <<>>

\* Of two slicers that show each other's line, the one with a color has its
\* frame and the one with color "" has none.
SelfIndicatorRuleWitness ==
    /\ info[1].color = ""
    /\ PeerTraces(indicator_traces[1]) # <<>>
    /\ SelfFrames(indicator_traces[1]) = <<>>
    /\ PeerTraces(indicator_traces[2]) # <<>>
    /\ SelfFrames(indicator_traces[2]) # <<>>

\* The indicators a figure shows: its scatter traces of width 1 and 4.
DrawnIndicators(fig) ==
    SelectSeq(fig, LAMBDA tr : IF tr.type = "scatter" THEN tr.line.width \in {1, 4}
                               ELSE FALSE)

\* C13 (color ""): a slicer constructed with color "" has no frame in its
\* own figure, and no figure of any slicer shows a line for its position
\* (an indicator with the color "").
NoIndicatorForColorless ==
    \A s \in slicers :
        ctor[s].color = Some("") =>
            /\ SelectSeq(DrawnIndicators(figure_data[s]),
                         LAMBDA tr : tr.line.width = 4) = <<>>
            /\ \A t \in slicers :
                  SelectSeq(DrawnIndicators(figure_data[t]),
                            LAMBDA tr : tr.line.color = "") = <<>>

\* The second slicer got the line of the first, whose color is "", in its
\* indicator traces; its figure shows its own frame alone.
NoIndicatorForColorlessWitness ==
    /\ ctor[1].color = Some("")
    /\ state[1] # None
    /\ Len(PeerTraces(indicator_traces[2])) = 1
    /\ PeerTraces(indicator_traces[2])[1].line.color = ""
    /\ Len(DrawnIndicators(figure_data[2])) = 1
    /\ DrawnIndicators(figure_data[2])[1].line.width = 4

\* C14 as stated: the figure's data are the image traces, then the extra
\* traces, then the indicator traces, none omitted; an update of the figure
\* leaves the rest of the figure (the layout's ranges) as it is.
FigureIsConcatenation ==
    [][\A s \in slicers :
          /\ figure_data'[s] = img_traces'[s] \o extra_traces'[s] \o indicator_traces'[s]
          /\ figure_data'[s] # figure_data[s] => <<s, "figure">> \in ev'.out
          /\ <<s, "figure">> \in ev'.out => view'[s] = view[s]]_vars

\* C14, amended: the indicator traces whose line color is "" are left out.
FigureIsFilteredConcatenation ==
    [][\A s \in slicers :
          /\ figure_data'[s] =
                img_traces'[s] \o extra_traces'[s]
                \o SelectSeq(indicator_traces'[s], LAMBDA tr : tr.line.color # "")
          /\ figure_data'[s] # figure_data[s] => <<s, "figure">> \in ev'.out
          /\ <<s, "figure">> \in ev'.out => view'[s] = view[s]]_vars

\* A figure with two image traces, two extra traces and the frame; the
\* line of the peer with color "" is in the store and not in the figure.
FigureIsFilteredConcatenationWitness ==
    /\ Len(extra_traces[2]) = 2
    /\ Len(indicator_traces[2]) = 2
    /\ Len(figure_data[2]) = 5
    /\ figure_data[2][5] = indicator_traces[2][2]
    /\ <<2, "figure">> \in ev.out


\* C18 as stated: the thumbnail of an image of size (w, h) for the target
\* size t has the aspect ratio of the image, and its longer side is t.
ThumbnailLongerSideIsTarget ==
    res # None =>
        /\ res[1][1] * arg[1].size[2] = res[1][2] * arg[1].size[1]
        /\ Max(res[1][1], res[1][2]) = arg[1].ref_size

\* C18, amended: an image whose shorter side is at most t keeps its size.
\* Otherwise the target is the size of the SHORTER side: the longer side of
\* the thumbnail, along the longer side of the image, is
\* floor(t * longer / shorter), its shorter side is t or t - 1 (and at least
\* 1), and the aspect ratio is that of the image up to the rounding to
\* whole pixels, |w' * h - h' * w| <= max(w, h).
ThumbnailShorterSideIsTarget ==
    res # None =>
        LET w == arg[1].size[1]
            h == arg[1].size[2]
            t == arg[1].ref_size
            tw == res[1][1]
            th == res[1][2]
        IN  IF t >= Min(w, h)
            THEN res[1] = <<w, h>>
            ELSE /\ IF w > h
                    THEN tw = (t * w) \div h /\ th \in {t, Max(t - 1, 1)}
                    ELSE th = (t * h) \div w /\ tw \in {t, Max(t - 1, 1)}
                 /\ Abs(tw * h - th * w) <= Max(w, h)

\* A 3 x 6 image with target 2 became 2 x 4, a 6 x 3 image 4 x 2, and a
\* 3 x 4 image 1 x 2.
ThumbnailShorterSideIsTargetWitness ==
    /\ arg # None
    /\ arg[1].ref_size = 2
    /\ \/ arg[1].size = <<3, 6>> /\ res = Some(<<2, 4>>)
       \/ arg[1].size = <<6, 3>> /\ res = Some(<<4, 2>>)

\* The permutation C19 names, of a triple v in zyx order, for axis a.
AxisPermuted(v, a) ==
    CASE a = 0 -> <<v[3], v[2], v[1]>>
      [] a = 1 -> <<v[3], v[1], v[2]>>
      [] a = 2 -> <<v[2], v[1], v[3]>>

\* C19 (axis permutation): for every shape and axis a in {0, 1, 2},
\* shape3d_to_size2d returns (x', y', z') with z' = shape[a] and (x', y') the
\* two remaining entries in reversed order; axis 3 raises IndexError; and
\* size, offset (origin) and stepsize (spacing) of a viewer are permuted
\* alike.
AxisPermutation ==
    res # None =>
        /\ arg[1].axis \in 0..2 =>
              /\ res[1].size2d = [raised |-> "",
                                  value |-> AxisPermuted(arg[1].shape, arg[1].axis)]
              /\ res[1].size2d.value[3] = arg[1].shape[arg[1].axis + 1]
              /\ res[1].info # None
              /\ res[1].info[1].size = AxisPermuted(arg[1].shape, arg[1].axis)
              /\ res[1].info[1].offset = AxisPermuted(arg[1].origin, arg[1].axis)
              /\ res[1].info[1].stepsize = AxisPermuted(arg[1].spacing, arg[1].axis)
        /\ arg[1].axis = 3 => res[1].size2d.raised = "IndexError"

\* The shape (1, 2, 3) on axis 1 gave (3, 1, 2), and the origin and the
\* spacing of the viewer were permuted with it.
AxisPermutationWitness ==
    /\ arg # None
    /\ res # None
    /\ arg[1].shape = <<1, 2, 3>>
    /\ arg[1].axis = 1
    /\ arg[1].origin = <<0, 1, 2>>
    /\ res[1].size2d.value = <<3, 1, 2>>
    /\ res[1].info[1].offset = <<2, 0, 1>>

\* C20 (slice sampling): for an index in [0, shape[axis]) the sampled slice
\* is a 2D uint8 array whose shape is the shape of the volume without the
\* sliced axis; for every other index, the negative ones included, sampling
\* raises IndexError.
SliceSampling ==
    res # None =>
        LET sh == arg[1].shape
            a == arg[1].axis
        IN  IF 0 <= arg[1].index /\ arg[1].index < sh[a + 1]
            THEN /\ res[1].raised = ""
                 /\ res[1].dtype = "uint8"
                 /\ res[1].shape = CASE a = 0 -> <<sh[2], sh[3]>>
                                     [] a = 1 -> <<sh[1], sh[3]>>
                                     [] a = 2 -> <<sh[1], sh[2]>>
                 /\ res[1].plane = arg[1].index
            ELSE res[1].raised = "IndexError"


\* The slicers constructed so far.
Objects == res[1].objects

\* C15 (default scene ids): of the slicers constructed without an explicit
\* scene_id, two have the same scene id if and only if they were given the
\* same volume object; a construction with an explicit scene_id uses it as
\* given and leaves the registry as it is.
DefaultSceneIds ==
    [][/\ \A i, j \in DOMAIN res'[1].objects :
             ~res'[1].objects[i].explicit /\ ~res'[1].objects[j].explicit =>
                 (res'[1].objects[i].scene_id = res'[1].objects[j].scene_id
                    <=> res'[1].objects[i].volume = res'[1].objects[j].volume)
       /\ res'[1].raised = "" /\ arg'[1].call.scene_id.type = "str" =>
             /\ res'[1].objects[Len(res'[1].objects)].scene_id = arg'[1].call.scene_id.val
             /\ res'[1].assigned = res[1].assigned]_vars

\* Three slicers: one of volume a without scene_id ("vol0"), one of volume b
\* with the explicit scene_id "vol0", and one of volume b without scene_id,
\* which is "vol1": the registry holds two volumes.
DefaultSceneIdsWitness ==
    /\ Len(Objects) = 3
    /\ Objects[1].volume = "a" /\ ~Objects[1].explicit /\ Objects[1].scene_id = "vol0"
    /\ Objects[2].volume = "b" /\ Objects[2].explicit /\ Objects[2].scene_id = "vol0"
    /\ Objects[3].volume = "b" /\ ~Objects[3].explicit /\ Objects[3].scene_id = "vol1"
    /\ Cardinality(res[1].assigned) = 2

\* The names of the components of a slicer that get a string id.
ComponentNames ==
    {"graph", "slider", "info", "clim", "thumbs", "overlay", "server-data",
     "img-traces", "indicator-traces", "extra-traces", "timer"}

\* C16 (context ids are unique): no two slicers constructed share a context
\* id, whatever their volumes, axes, scenes and apps; so no component id of
\* one is a component id of the other, and the keys of their private
\* rate-limiter states differ.
ContextIdsUnique ==
    \A i, j \in DOMAIN Objects :
        i # j =>
            /\ Objects[i].context_id # Objects[j].context_id
            /\ \A n, m \in ComponentNames :
                  subid(Objects[i].context_id, n) # subid(Objects[j].context_id, m)
            /\ private_state_key(Objects[i].context_id)
                 # private_state_key(Objects[j].context_id)

\* Three slicers, two of them of one volume and scene on one app and the
\* third on another app.
ContextIdsUniqueWitness ==
    /\ Len(Objects) = 3
    /\ Objects[1].app = Objects[2].app
    /\ Objects[1].volume = Objects[2].volume
    /\ Objects[1].scene_id = Objects[2].scene_id
    /\ Objects[3].app # Objects[1].app
    /\ Objects[3].context_id = "slicer3"

\* The invalid arguments C17 names.
BadApp(c) == c.app.type # "Dash"

BadVolume(c) == ~(c.volume.type = "ndarray" /\ c.volume.ndim = 3)

BadAxis(c) == ~(c.axis[1] = "int" /\ c.axis[2] \in {0, 1, 2})

BadClim(c) == ~(c.clim.type = "NoneType" \/ (c.clim.type \in {"tuple", "list"} /\ c.clim.len = 2))

BadThumbnail(c) == c.thumbnail[1] \notin {"int", "bool"}

BadSceneId(c) == c.scene_id.type \notin {"NoneType", "str"}

BadTyped(c) == BadApp(c) \/ BadVolume(c) \/ BadClim(c) \/ BadThumbnail(c) \/ BadSceneId(c)

\* C17 (construction errors): a call of the constructor with a non-Dash
\* app, a volume that is not a 3D ndarray, a clim that is neither None nor a
\* 2-element tuple or list, a thumbnail that is not int or bool (None
\* included) or a non-string scene_id raises TypeError, a call with an axis
\* outside {0, 1, 2} raises ValueError (when several arguments are invalid,
\* one of the two), and no slicer object results; a call with valid
\* arguments raises nothing and results in one more slicer.
ConstructionErrors ==
    [][/\ BadTyped(arg'[1].call) /\ ~BadAxis(arg'[1].call) =>
             res'[1].raised = "TypeError"
       /\ BadAxis(arg'[1].call) /\ ~BadTyped(arg'[1].call) =>
             res'[1].raised = "ValueError"
       /\ BadTyped(arg'[1].call) \/ BadAxis(arg'[1].call) =>
             /\ res'[1].raised \in {"TypeError", "ValueError"}
             /\ res'[1].objects = res[1].objects
       /\ ~BadTyped(arg'[1].call) /\ ~BadAxis(arg'[1].call) =>
             /\ res'[1].raised = ""
             /\ Len(res'[1].objects) = Len(res[1].objects) + 1]_vars

\* After one slicer was constructed, a call with axis=4 and otherwise valid
\* arguments raised ValueError, and there is still one slicer.
ConstructionErrorsWitness ==
    /\ arg # None
    /\ arg[1].n = 2
    /\ arg[1].call.axis = <<"int", 4>>
    /\ ~BadTyped(arg[1].call)
    /\ res[1].raised = "ValueError"
    /\ Len(Objects) = 1

\* C21 (zero-width contrast range): sampling a slice with contrast limits
\* whose two values are equal raises nothing and yields a slice of zeros.
ZeroWidthClim ==
    res # None /\ arg[1].clim.a = arg[1].clim.b =>
        /\ res[1].raised = ""
        /\ \A i \in DOMAIN res[1].value : res[1].value[i] = 0

\* C22 (overlay absence marker): the overlay for a mask over axis a has one
\* entry per index along a, and entry i is None exactly when slice i of the
\* mask is zero everywhere and an encoded image otherwise; the mask None
\* gives a list of None of length nslices (and so does a mask of zeros).
OverlayAbsenceMarker ==
    res # None /\ res[1].raised = "" =>
        LET nslices == arg[1].shape[arg[1].axis + 1]
        IN  /\ Len(res[1].value) = nslices
            /\ arg[1].mask = None => \A i \in 1..nslices : res[1].value[i] = None
            /\ arg[1].mask # None =>
                  /\ nslices = arg[1].mask[1].shape[arg[1].axis + 1]
                  /\ \A i \in 1..nslices :
                        /\ res[1].value[i] = None
                             <=> \A v \in Hyperplane(arg[1].shape, arg[1].axis, i - 1) :
                                    arg[1].mask[1].data[v] = 0
                        /\ res[1].value[i] # None => res[1].value[i][1].tag = "png"

\* A mask whose first slice along axis 0 is zero and whose second is not
\* gave None and an image.
OverlayAbsenceMarkerWitness ==
    /\ arg # None
    /\ res # None
    /\ arg[1].axis = 0
    /\ arg[1].mask # None
    /\ res[1].raised = ""
    /\ Len(res[1].value) = 2
    /\ res[1].value[1] = None
    /\ res[1].value[2] # None

\* C23 as stated: in every state, from construction on, the thumbnails
\* store of a viewer has one entry per slice.
ThumbnailSetLength ==
    \A s \in slicers : Len(thumbs[s]) = info[s].size[3]

\* C23, amended: the thumbnails store is the empty list from construction
\* until the first response of upload_thumbnails arrives, which is then on
\* its way; from then on, across changes of the contrast limits, it has one
\* entry per slice.
ThumbnailSetLengthOnceLoaded ==
    [][\A s \in slicers :
          \/ Len(thumbs'[s]) = info[s].size[3]
          \/ /\ thumbs'[s] = <<>>
             /\ thumbs[s] = <<>>
             /\ \E r \in thumbs_pending' : r.s = s]_vars

\* The thumbnails for changed contrast limits arrived: one per slice, of
\* the new limits.
ThumbnailSetLengthOnceLoadedWitness ==
    /\ ev.act = "thumbs"
    /\ clim[1] # ctor[1].clim
    /\ thumbs_pending = {}
    /\ Len(thumbs[1]) = info[1].size[3]
    /\ \A i \in DOMAIN thumbs[1] : thumbs[1][i].clim = clim[1]

\* The interval an image trace of n pixels covers along one direction:
\* from x0 - dx / 2 to x0 + (n - 1/2) * dx.
Covered(x0, dx, n) ==
    <<QSub(x0, QMul(QHalf, dx)), QAdd(x0, QMul(Q(2 * n - 1, 2), dx))>>

\* The rectangle the slice trace tr covers when its image has w x h pixels.
CoveredRect(tr, w, h) == <<Covered(tr.x0, tr.dx, w), Covered(tr.y0, tr.dy, h)>>

\* C24 (placement equivalence): the rectangle of the scene that the
\* thumbnail covers as it is placed equals the rectangle the full-resolution
\* slice covers, from offset - stepsize / 2 to offset + (size - 1/2) *
\* stepsize in x and in y, for every index, size, thumbnail size, offset and
\* stepsize.
PlacementEquivalence ==
    res # None =>
        LET inf == arg[1].info
            pixels == IF arg[1].hit THEN inf.size ELSE inf.thumbnail_size
        IN  CoveredRect(res[1][1], pixels[1], pixels[2])
              = <<Covered(QInt(inf.offset[1]), QInt(inf.stepsize[1]), inf.size[1]),
                  Covered(QInt(inf.offset[2]), QInt(inf.stepsize[2]), inf.size[2])>>

\* A thumbnail of 2 x 1 pixels for a slice of 3 x 2 was placed with pixels
\* of 3/2 steps in x and 2 steps in y.
PlacementEquivalenceWitness ==
    /\ arg # None
    /\ res # None
    /\ ~arg[1].hit
    /\ arg[1].info.size = <<3, 2, 2>>
    /\ arg[1].info.thumbnail_size = <<2, 1>>
    /\ arg[1].info.stepsize = <<1, 1, 1>>
    /\ res[1][1].dx = <<3, 2>>
    /\ res[1][1].dy = <<2, 1>>
    /\ res[1][1].source.w = 2

\* C30 (hit or miss): the slice trace for the index i shows the server's
\* slice, placed at (offset, stepsize), if and only if server_data.index is
\* i; otherwise it shows thumbnails[i] with dx and dy multiplied by size /
\* thumbnail_size and x0 and y0 shifted by half a scaled pixel minus half a
\* full one.  The overlay trace shows overlays[i], or the empty source when
\* there is none, at (offset, stepsize).
HitOrMiss ==
    res # None =>
        LET a == arg[1]
            inf == a.info
            slice_trace == res[1][1]
            overlay_trace == res[1][2]
            scaled(k) == QMul(QInt(inf.stepsize[k]), Q(inf.size[k], inf.thumbnail_size[k]))
            shifted(k) == QAdd(QInt(inf.offset[k]),
                               QSub(QMul(QHalf, scaled(k)), QMul(QHalf, QInt(inf.stepsize[k]))))
        IN  /\ PlacedServer(a).index = a.index =>
                  /\ slice_trace.source = PlacedServer(a).slice
                  /\ <<slice_trace.x0, slice_trace.y0>> = <<QInt(inf.offset[1]), QInt(inf.offset[2])>>
                  /\ <<slice_trace.dx, slice_trace.dy>> = <<QInt(inf.stepsize[1]), QInt(inf.stepsize[2])>>
            /\ PlacedServer(a).index # a.index =>
                  /\ slice_trace.source = PlacedThumbnails(a)[a.index + 1]
                  /\ <<slice_trace.x0, slice_trace.y0>> = <<shifted(1), shifted(2)>>
                  /\ <<slice_trace.dx, slice_trace.dy>> = <<scaled(1), scaled(2)>>
            /\ overlay_trace.source =
                  IF a.index + 1 \in DOMAIN a.overlays /\ a.overlays[a.index + 1] # None
                  THEN a.overlays[a.index + 1][1]
                  ELSE EmptySource
            /\ <<overlay_trace.x0, overlay_trace.y0>> = <<QInt(inf.offset[1]), QInt(inf.offset[2])>>
            /\ <<overlay_trace.dx, overlay_trace.dy>> = <<QInt(inf.stepsize[1]), QInt(inf.stepsize[2])>>

\* A hit for index 0 of a slicer with smaller thumbnails and an overlay for
\* that slice: the trace shows the full-resolution slice, not the thumbnail.
HitOrMissWitness ==
    /\ arg # None
    /\ res # None
    /\ arg[1].hit
    /\ arg[1].index = 0
    /\ arg[1].info.thumbnail_size[1] < arg[1].info.size[1]
    /\ arg[1].overlays # <<>>
    /\ res[1][1].source.w = arg[1].info.size[1]
    /\ res[1][2].source # EmptySource

\* The event just taken is a tick of s, and it wrote the state store of s.
TickOf(s) == ev'.act = "tick" /\ ev'.s = s

CommitOf(s) == <<s, "state">> \in ev'.out

\* The deadline of s is pending and has passed.
DeadlinePassed(s) ==
    IF private_state[s].timeout = None THEN FALSE ELSE Now >= private_state[s].timeout[1]

\* C25 (commits come from due ticks): the state store of a viewer is written
\* only by a tick of its timer that finds a deadline pending and passed and
\* whose n_intervals is at least 5; no slider, relayout, click, set-position
\* or server-response event writes it.  A tick with n_intervals < 5 and a
\* passed deadline neither commits nor clears the deadline, and a tick with
\* n_intervals >= 5 and a passed deadline commits.
CommitOnlyOnDueTick ==
    [][\A s \in slicers :
          /\ CommitOf(s) \/ state'[s] # state[s] =>
                /\ TickOf(s)
                /\ DeadlinePassed(s)
                /\ timer'[s].n_intervals >= SettleTicks
          /\ TickOf(s) /\ DeadlinePassed(s) /\ timer'[s].n_intervals < SettleTicks =>
                /\ ~CommitOf(s)
                /\ state'[s] = state[s]
                /\ private_state'[s].timeout = private_state[s].timeout
          /\ TickOf(s) /\ DeadlinePassed(s) /\ timer'[s].n_intervals >= SettleTicks =>
                CommitOf(s)]_vars

\* The first commit of a viewer, on its fifth tick: the deadline of the
\* start had passed during the ticks before.
CommitOnlyOnDueTickWitness ==
    /\ ev.act = "tick"
    /\ <<1, "state">> \in ev.out
    /\ timer[1].n_intervals = SettleTicks
    /\ state[1] # None
    /\ private_state[1].timeout = None

\* C26 (return to idle): a tick that finds no deadline pending disables the
\* timer; a commit leaves no deadline pending, so that the tick after a
\* commit, if not the committing tick itself, disables the timer; and a
\* disabled timer is enabled only by a change of the slider or of the view
\* range.
ReturnToIdle ==
    [][\A s \in slicers :
          /\ TickOf(s) /\ private_state[s].timeout = None => timer'[s].disabled
          /\ CommitOf(s) => private_state'[s].timeout = None
          /\ timer[s].disabled /\ ~timer'[s].disabled =>
                \/ <<s, "slider">> \in ev'.out
                \/ ev'.act = "relayout" /\ ev'.s = s /\ view'[s] # view[s]]_vars

\* The timer was disabled by a tick after the commit of a state.
ReturnToIdleWitness ==
    /\ ev.act = "tick"
    /\ <<1, "state">> \notin ev.out
    /\ timer[1].disabled
    /\ state[1] # None
    /\ private_state[1].timeout = None

\* C27 (index_changed): a committed state has index_changed true if and
\* only if its index is not the index of the previous commit of the viewer,
\* the first commit always; and the last_index the viewer remembers is the
\* index of its latest commit.
IndexChangedSemantics ==
    [][\A s \in slicers :
          /\ CommitOf(s) =>
                (state'[s][1].index_changed
                   <=> IF state[s] = None THEN TRUE
                       ELSE state[s][1].index # state'[s][1].index)
          /\ state'[s] # None =>
                private_state'[s].last_index = Some(state'[s][1].index)]_vars

\* A commit that does not change the index (after a zoom, say).
IndexChangedSemanticsWitness ==
    /\ ev.act = "tick"
    /\ <<1, "state">> \in ev.out
    /\ ~state[1][1].index_changed
    /\ private_state[1].last_index = Some(state[1][1].index)

\* C29 (quiet period): no commit comes less than SliderTimeout (200 ms)
\* after the latest change of the slider of the viewer, whatever events come
\* between; while the changes follow one another by less than that, there
\* is no commit at all.
QuietPeriod ==
    \A s \in slicers :
        burst[s].tracked /\ burst[s].since < SliderTimeout => burst[s].commits = 0

\* The commit after several slider changes less than SliderTimeout apart,
\* with a zoom after them.
QuietPeriodWitness ==
    /\ ev.act = "tick"
    /\ <<1, "state">> \in ev.out
    /\ burst[1].tracked
    /\ burst[1].many
    /\ burst[1].commits = 1
    /\ view[1] # AutoRange(info[1])

\* C28 (deadline assignment): an invocation of the rate limiter sets the
\* deadline to now + 200 ms if the slider is among the triggers; else to
\* now + 400 ms if the graph is among the triggers and relayoutData has an
\* xaxis.range or yaxis.range key; else to now + 100 ms if n_intervals is 0;
\* else it leaves the deadline as it is.  In the first three cases the timer
\* is enabled.
DeadlineAssignment ==
    res # None =>
        LET a == arg[1]
            after == res[1].private.timeout
        IN  IF "slider" \in a.triggered
            THEN after = Some(Now + SliderTimeout) /\ ~res[1].disable_timer
            ELSE IF "graph" \in a.triggered /\ a.range_keys
            THEN after = Some(Now + LayoutTimeout) /\ ~res[1].disable_timer
            ELSE IF a.n_intervals = 0
            THEN after = Some(Now + InitTimeout) /\ ~res[1].disable_timer
            ELSE after = a.private.timeout

\* The slider and a relayout with range keys trigger one invocation
\* together, after some ticks and with another deadline pending: the
\* deadline is that of the slider.
DeadlineAssignmentWitness ==
    /\ res # None
    /\ arg[1].triggered = {"slider", "graph"}
    /\ arg[1].range_keys
    /\ arg[1].n_intervals > 0
    /\ arg[1].private.timeout = Some(Now + LayoutTimeout)
    /\ res[1].private.timeout = Some(Now + SliderTimeout)
    /\ ~res[1].disable_timer

\* C40 (failed construction leaves the process as it was): a call of the
\* constructor that raises leaves the counter of slicers, the registry of
\* scene ids, the slicers and the registered callbacks as they were, so that
\* any later construction gives what it would have given without the failed
\* call.
FailedConstructionLeavesNoTrace ==
    [][res'[1].raised # "" =>
          /\ res'[1].counter = res[1].counter
          /\ res'[1].assigned = res[1].assigned
          /\ res'[1].objects = res[1].objects
          /\ res'[1].callbacks = res[1].callbacks
          /\ \A c \in ValidCalls :
                VolumeSlicerInit(res'[1], c) = VolumeSlicerInit(res[1], c)]_vars

\* A call that raises for its scene id, the last of the checks, after
\* slicers were constructed and a scene id was registered.
FailedConstructionLeavesNoTraceWitness ==
    /\ arg # None
    /\ res[1].raised = "TypeError"
    /\ arg[1].call.scene_id.type \notin {"NoneType", "str"}
    /\ arg[1].call.app.type = "Dash"
    /\ res[1].counter >= 1
    /\ res[1].assigned # {}
    /\ res[1].callbacks # {}

\* C38 (quiet period of the view, as stated): no commit comes less than
\* LayoutTimeout (400 ms) after the latest change of the view range of the
\* viewer, whatever comes between.
ViewQuietPeriod ==
    \A s \in slicers :
        burst[s].tracked /\ burst[s].since < LayoutTimeout => burst[s].commits = 0

\* C38 (quiet period of the view, as the code has it): no commit comes less
\* than LayoutTimeout after the latest change of the view range unless the
\* slider was written after that change, and none less than SliderTimeout
\* (200 ms) after it in any case: a write of the slider sets the deadline
\* to SliderTimeout from the write, which may be before the deadline that
\* was pending.
ViewQuietUnlessSlider ==
    \A s \in slicers :
        /\ burst[s].tracked /\ burst[s].since < LayoutTimeout /\ ~burst[s].many =>
              burst[s].commits = 0
        /\ burst[s].tracked /\ burst[s].since < SliderTimeout => burst[s].commits = 0

\* The commit LayoutTimeout after a change of the view range, the slider
\* untouched since.
ViewQuietUnlessSliderWitness ==
    /\ ev.act = "tick"
    /\ <<1, "state">> \in ev.out
    /\ burst[1].tracked
    /\ ~burst[1].many
    /\ burst[1].since = LayoutTimeout
    /\ burst[1].commits = 1
    /\ view[1] # AutoRange(info[1])

\* The peers of t that show in its plane: the slicers of its scene whose
\* store holds a state of an axis in 0..2 other than the axis of t.
ShownPeers(st, t) ==
    {u \in SameScene(t) :
        IF st[u] = None THEN FALSE
        ELSE st[u][1].axis \in 0..2 /\ st[u][1].axis # info[t].axis}

LineTraces(tr) == {i \in DOMAIN tr : tr[i].line.width = 1}

UncommittedPeerEvent(t) ==
    /\ ev'.act \in {"slider", "relayout", "thumbs", "slice"}
    /\ ev'.s # t

\* C33 (indicators follow committed state only): the indicator traces of a
\* viewer change only in a step that writes the state store of a viewer of
\* its scene; a move of a peer's slider, a pan or zoom of a peer, or a tile
\* that arrives for a peer changes neither the indicator traces, nor the
\* slider, nor the state of this viewer.
IndicatorsFollowCommits ==
    [][\A t \in slicers :
          /\ indicator_traces'[t] # indicator_traces[t] =>
                \E u \in SameScene(t) : <<u, "state">> \in ev'.out
          /\ UncommittedPeerEvent(t) =>
                /\ indicator_traces'[t] = indicator_traces[t]
                /\ slider'[t] = slider[t]
                /\ state'[t] = state[t]]_vars

\* The second viewer shows the line of the first at the index the first
\* was dragged to and committed, in one scene.
IndicatorsFollowCommitsWitness ==
    /\ SameScene(2) = slicers
    /\ ev.act = "tick"
    /\ ev.s = 1
    /\ <<1, "state">> \in ev.out
    /\ <<2, "indicator-traces">> \in ev.out
    /\ state[1][1].index # info[1].size[3] \div 2
    /\ indicator_traces[2] # <<>>

\* C37 (a change of the contrast limits refreshes the tile, as stated):
\* once every request is answered, a slicer with a committed state whose
\* slider is at the index of server_data shows a tile that was rendered
\* with the current contrast limits.
ContrastRefreshesTile ==
    \A s \in slicers :
        (state[s] # None /\ slices_pending = {} /\ slider[s] = server_data[s].index) =>
            server_data[s].slice.clim = clim[s]

\* C37 (as the code has it): a change of the contrast limits requests the
\* slice of the committed index with the new limits if the committed state
\* has index_changed true; if there is no state or its index_changed is
\* false, nothing is requested and server_data stays as it is, with the
\* limits it was rendered with.
ContrastRefreshesChangedIndex ==
    [][\A s \in slicers :
          (ev'.act = "clim" /\ ev'.s = s) =>
              IF state[s] # None /\ state[s][1].index_changed
              THEN /\ \E r \in slices_pending' :
                         /\ r.s = s
                         /\ r.data.index = state[s][1].index
                         /\ r.data.slice.clim = clim'[s]
                   /\ server_data' = server_data
              ELSE /\ slices_pending' = slices_pending
                   /\ server_data' = server_data]_vars

\* The limits were changed while the committed state, after a zoom, had
\* index_changed false: the tile of the index is the one rendered with the
\* limits of before.
ContrastRefreshesChangedIndexWitness ==
    /\ ev.act = "clim"
    /\ state[1] # None
    /\ ~state[1][1].index_changed
    /\ slices_pending = {}
    /\ slider[1] = server_data[1].index
    /\ server_data[1].slice.clim # clim[1]

\* The indices of the slicer with info inf whose slice is nearest to the
\* coordinate c along its axis.
NearestIndices(c, inf) ==
    LET dist(i) == Abs(c - (inf.offset[3] + i * inf.stepsize[3]))
    IN  {i \in 0..(inf.size[3] - 1) : \A j \in 0..(inf.size[3] - 1) : dist(i) <= dist(j)}

\* The components of the position pos other than the one at k (from 0).
OtherComponents(pos, k) == SelectSeq([i \in 1..3 |-> IF i = k + 1 THEN None ELSE pos[i]],
                                     LAMBDA c : c # None)

\* C39 (click round trip): a click in a viewer publishes a position that
\* has the depth of the viewer, offset + index * stepsize, at place
\* 2 - axis and the clicked coordinates in the two other places; applying
\* it leaves the slider of the clicking viewer where it is and sets the
\* slider of every viewer of the scene on another axis to the index, within
\* its range, that is nearest to the clicked coordinate along its axis; the
\* viewers of other scenes are left alone.
ClickRoundTrip ==
    [][ev'.act = "click" =>
          LET s == ev'.s
              pos == ev'.pos[1]
          IN  /\ pos[(2 - info[s].axis) + 1]
                   = Some(info[s].offset[3] + slider[s] * info[s].stepsize[3])
              /\ \E p \in ClickPoints(info[s]) :
                    OtherComponents(pos, 2 - info[s].axis) = <<Some(p[1]), Some(p[2])>>
              /\ slider'[s] = slider[s]
              /\ \A t \in slicers :
                    IF t \notin SameScene(s)
                    THEN slider'[t] = slider[t]
                    ELSE info[t].axis # info[s].axis =>
                            slider'[t] \in NearestIndices(pos[(2 - info[t].axis) + 1][1],
                                                          info[t])]_vars

\* A click in the viewer on axis 1, after its slider was dragged, that
\* moved the slider of the viewer on axis 0.
ClickRoundTripWitness ==
    /\ ev.act = "click"
    /\ ev.s = 2
    /\ slider[2] # info[2].size[3] \div 2
    /\ <<1, "slider">> \in ev.out
    /\ slider[1] # info[1].size[3] \div 2

\* The deadline of the first slicer is pending; it committed just now; the
\* last event was no input of the user.
Pending1 == private_state[1].timeout # None

Committed1 == ev.act = "tick" /\ <<1, "state">> \in ev.out

NoInput == ev.act \notin {"slider", "relayout", "click", "setpos"}

\* C35 (pending implies enabled, as stated): a timer is enabled whenever
\* the deadline of its viewer is pending, and every pending deadline is
\* followed by a commit.
PendingLeadsToCommit ==
    /\ [](\A s \in slicers : private_state[s].timeout # None => ~timer[s].disabled)
    /\ [](Pending1 => <>Committed1)

\* C35 (as the code has it): a timer is enabled whenever the deadline of
\* its viewer is pending, and a pending deadline is followed by a commit
\* or by another input of the user, so by a commit once the inputs stop; as
\* long as inputs keep coming before the deadline they set it anew and
\* there is no commit.
PendingLeadsToCommitOnceQuiet ==
    /\ [](\A s \in slicers : private_state[s].timeout # None => ~timer[s].disabled)
    /\ [](Pending1 /\ NoInput => <>(Committed1 \/ ~NoInput))

\* A deadline set by the slider after the timer was stopped is pending
\* with the timer running again.
PendingLeadsToCommitOnceQuietWitness ==
    /\ ev.act = "slider"
    /\ state[1] # None
    /\ timer[1].n_intervals >= SettleTicks
    /\ private_state[1].timeout = Some(Now + SliderTimeout)
    /\ ~timer[1].disabled

\* The first slicer shows the full-resolution tile of the index of its
\* slider.
FullResolutionShown ==
    /\ server_data[1].index = slider[1]
    /\ img_traces[1][1].source = Png(slider[1], clim[1], <<info[1].size[1], info[1].size[2]>>)

\* C36 (eventual full resolution): once the inputs have stopped and every
\* request is answered, in whatever order, server_data holds the index of
\* the slider and the image shown is the full-resolution tile of that
\* index, for good.
EventualFullResolution == <>[]FullResolutionShown

\* C34 (as stated): with an application that feeds every committed index
\* back into the scene as a set-position publication, the loop comes to
\* rest once the input has stopped: the slider holds the committed index,
\* nothing is under way and the timer is disabled, for good.
LoopAtRest ==
    /\ state[1] # None
    /\ slider[1] = state[1][1].index
    /\ private_state[1].timeout = None
    /\ timer[1].disabled
    /\ res = {}

FeedbackOfRawIndexIsSilent ==
    [][(ev'.act = "setpos" /\ res' # res /\ (res \ res') = {slider[1]}) =>
          /\ slider' = slider
          /\ ev'.out = {}
          /\ timer' = timer
          /\ private_state' = private_state]_vars

TwoUnderWay == Cardinality(res) >= 2

ComputedPair(index, server, overlays, thumbnails, inf) ==
    LET other == IF SliceSource(index, server, thumbnails) = EmptySource
                 THEN UndefinedSource ELSE EmptySource
    IN  update_image_traces(index, server, overlays, thumbnails, inf,
                            <<[source |-> other], [source |-> other]>>)[1]

\* The inputs of update_image_traces in the slicer s.
ImageInputs(s) == <<slider[s], server_data[s], overlay[s], thumbs[s]>>

\* C31: output suppression of update_image_traces.  When an input of the
\* callback is written, the callback emits no update if the pair it
\* computes is the stored pair, in source and in geometry; when it emits no
\* update the stored pair has the sources and the geometry of the pair
\* computed; and it emits the pair computed whenever the source of the
\* image or of the overlay differs from the stored one.
OutputSuppression ==
    [][\A s \in slicers :
          ImageInputs(s)' # ImageInputs(s) =>
             LET new == ComputedPair(slider'[s], server_data'[s], overlay'[s],
                                     thumbs'[s], info[s])
                 old == img_traces[s]
                 emitted == <<s, "img-traces">> \in ev'.out
             IN  /\ old = new => ~emitted
                 /\ ~emitted => /\ old = new
                                /\ img_traces'[s] = old
                 /\ (new[1].source # old[1].source \/ new[2].source # old[2].source)
                       => emitted /\ img_traces'[s] = new]_vars

\* An overlay on a slice that is not shown was written and nothing was
\* emitted, after an overlay on the slice shown was emitted.
OutputSuppressionWitness ==
    /\ ev.act = "overlay"
    /\ <<1, "img-traces">> \notin ev.out
    /\ overlay[1] # <<>>
    /\ img_traces[1][2].source # EmptySource
    /\ thumbs[1] # <<>>
====
